---- MODULE Spec2Model ----
(***************************************************************************)
(* OZMetaDB: the portable expression / metric compiler.                    *)
(*                                                                         *)
(* Modelling conventions                                                   *)
(*  - A Python str is a sequence of atoms.  An atom is either one of the   *)
(*    characters the code inspects (the quote characters, the dot, the     *)
(*    brackets) or an opaque run of other characters ("Status", "allow").  *)
(*    The str is the concatenation of its atoms; compiled text is a str.   *)
(*  - A JSON / Python value is a record [k |-> kind, v |-> payload] with   *)
(*    kind in null, bool, num, str, list, map; a map's payload is a        *)
(*    function from key names to values.                                   *)
(*  - A call's outcome is a record [ok, text, err]: ok = FALSE models an   *)
(*    exception of class err propagating to the caller.                    *)
(***************************************************************************)
EXTENDS Integers, Sequences, FiniteSets, TLC

VARIABLES
    gPc,       \* guard run: "new" -> "ready" -> "done" ("idle" when not in use)
    gTarget,   \* target name handed to DSLCompiler(target) / compile_dsl
    gDoc,      \* guard document handed to compile_guard
    gSelf,     \* the DSLCompiler instance (its attributes) once constructed
    gOut,      \* outcome of compile_guard
    mPc,       \* metric run: "new" -> "parsed" | "done" ("idle" when not in use)
    mTarget,   \* target name handed to compile_metric
    mDef,      \* metric definition handed to compile_metric
    mLookup,   \* metrics_lookup handed to compile_metric (code -> compiled text)
    mExpr,     \* what parse_metric_formula returned for the formula
    mOut,      \* the CompiledMetric (or the exception) compile_metric returned
    kPc,       \* KPI run: "new" -> "done" ("idle" when not in use)
    kTarget,   \* target name handed to compile_kpi
    kDef,      \* KPI definition handed to compile_kpi
    kMetrics,  \* compiled metrics handed to compile_kpi (code -> CompiledMetric)
    kOut,      \* the dict (or the exception) compile_kpi returned
    qPc,       \* literal run: "new" -> "done" ("idle" when not in use)
    qCompiler, \* which compiler renders the literal: "dsl" or "metrics"
    qTarget,   \* target name the compiler is constructed for
    qValue,    \* the str value of the literal
    qOut,      \* the compiled literal text
    sTree,     \* a parsed metric tree shared by two compiling threads
    sLookup,   \* the caller's metrics_lookup dict shared by the two threads
    sTree0,    \* the tree as it was before any thread ran
    sLookup0,  \* the lookup as it was before any thread ran
    sThreads,  \* per thread: pc "start" -> "ready" -> "done", target, compiler, out
    rPc,       \* migration: "none" (no run yet) -> "run" ("idle" when not in use)
    rRun,      \* the migration run dict the runner functions work on
    rNow,      \* the wall clock, in ticks
    rPrev,     \* the run dict as it was before the last runner call
    rOut,      \* the last runner call: its name, the exception it raised, the clock
    rCalls,    \* number of advance_checkpoint calls while no other call was made
    rOnlyAdvance, \* TRUE while only advance_checkpoint has been applied to the run
    lPc,       \* lineage query: "new" -> "done" ("idle" when not in use)
    lGraph,    \* the LineageGraph: registered node ids and the edge list
    lStart,    \* the node id the query starts from
    lDepth,    \* max_depth handed to the query
    lOut,      \* what the query returned
    jPc,       \* job sort: "new" -> "done" ("idle" when not in use)
    jSteps,    \* job.steps, the list handed to _topological_sort
    jOut,      \* the list _topological_sort returned
    aProject,  \* TRUE when the project the change requests name exists
    aStore,    \* projects/<id>/snapshot.json
    aStore0,   \* snapshot.json as it was before the first request
    aRequests, \* per apply request in flight: pc, change request, its snapshot, outcome
    oPc,       \* ordered compilation: "compile" <-> "add" ("idle" when not in use)
    oTarget,   \* target name handed to every compile_metric call
    oDefs,     \* the metric definitions of the set, by code
    oOrder,    \* the order the caller compiles the metrics in
    oLookup,   \* the caller's lookup: code -> compiled expression
    oOut       \* per call made: the CompiledMetric, its definition, the lookup handed in

guardVars == <<gPc, gTarget, gDoc, gSelf, gOut>>
metricVars == <<mPc, mTarget, mDef, mLookup, mExpr, mOut>>
kpiVars == <<kPc, kTarget, kDef, kMetrics, kOut>>
literalVars == <<qPc, qCompiler, qTarget, qValue, qOut>>
sharedVars == <<sTree, sLookup, sTree0, sLookup0, sThreads>>
migrationVars == <<rPc, rRun, rNow, rPrev, rOut, rCalls, rOnlyAdvance>>
lineageVars == <<lPc, lGraph, lStart, lDepth, lOut>>
jobVars == <<jPc, jSteps, jOut>>
applyVars == <<aProject, aStore, aStore0, aRequests>>
orderVars == <<oPc, oTarget, oDefs, oOrder, oLookup, oOut>>
extVars == <<migrationVars, lineageVars, jobVars, applyVars, orderVars>>
vars == <<guardVars, metricVars, kpiVars, literalVars, sharedVars, extVars>>

(***************************************************************************)
(* Bounds                                                                  *)
(***************************************************************************)
MaxArgs == 3        \* longest args list of an enumerated Op document

(***************************************************************************)
(* Strings and text                                                        *)
(***************************************************************************)
SQ == "'"
DQ == "\""
BT == "BACKTICK"     \* the backtick character
DOT == "."

RECURSIVE Concat(_)
Concat(ss) == IF ss = <<>> THEN <<>> ELSE Head(ss) \o Concat(Tail(ss))

\* sep.join(parts)
RECURSIVE Join(_, _)
Join(parts, sep) ==
    IF parts = <<>> THEN <<>>
    ELSE IF Len(parts) = 1 THEN parts[1]
    ELSE parts[1] \o sep \o Join(Tail(parts), sep)

\* s.replace(q, q * 2) for a one-character q
RECURSIVE Replace2(_, _)
Replace2(s, q) ==
    IF s = <<>> THEN <<>>
    ELSE (IF Head(s) = q THEN <<q, q>> ELSE <<Head(s)>>) \o Replace2(Tail(s), q)

\* s.split(dot)
RECURSIVE SplitDot(_)
SplitDot(s) ==
    IF \A i \in 1..Len(s) : s[i] # DOT THEN <<s>>
    ELSE LET i == CHOOSE j \in 1..Len(s) : s[j] = DOT /\ \A m \in 1..(j-1) : s[m] # DOT
         IN  <<SubSeq(s, 1, i-1)>> \o SplitDot(SubSeq(s, i+1, Len(s)))

\* s.strip(quote characters)
RECURSIVE StripQuotes(_)
StripQuotes(s) ==
    IF s = <<>> THEN s
    ELSE IF Head(s) \in {SQ, DQ} THEN StripQuotes(Tail(s))
    ELSE IF s[Len(s)] \in {SQ, DQ} THEN StripQuotes(SubSeq(s, 1, Len(s)-1))
    ELSE s

StartsWith(s, p) == Len(s) >= Len(p) /\ SubSeq(s, 1, Len(p)) = p

\* whether text s holds the atoms of p consecutively
Contains(s, p) ==
    \E i \in 1..(Len(s) - Len(p) + 1) : SubSeq(s, i, i + Len(p) - 1) = p

\* str.lower() / str.upper() on the atoms that carry letters in some case
CaseTable ==
    { <<"tsql", "Tsql", "TSQL">>, <<"sqlserver", "SqlServer", "SQLSERVER">>,
      <<"postgres", "Postgres", "POSTGRES">>, <<"snowflake", "Snowflake", "SNOWFLAKE">>,
      <<"spark", "Spark", "SPARK">>, <<"databricks", "Databricks", "DATABRICKS">>,
      <<"bigquery", "BigQuery", "BIGQUERY">>, <<"dax", "Dax", "DAX">>,
      <<"powerbi", "PowerBI", "POWERBI">>, <<"python", "Python", "PYTHON">>,
      <<"oracle", "Oracle", "ORACLE">>, <<"redshift", "Redshift", "REDSHIFT">>,
      <<"sparksql", "SparkSQL", "SPARKSQL">>,
      <<"and", "And", "AND">>, <<"or", "Or", "OR">>, <<"not", "Not", "NOT">>,
      <<"eq", "Eq", "EQ">>, <<"ne", "Ne", "NE">>, <<"gt", "Gt", "GT">>,
      <<"gte", "Gte", "GTE">>, <<"lt", "Lt", "LT">>, <<"lte", "Lte", "LTE">>,
      <<"in", "In", "IN">>, <<"isnull", "IsNull", "ISNULL">>,
      <<"isnotnull", "IsNotNull", "ISNOTNULL">>,
      <<"add", "Add", "ADD">>, <<"sub", "Sub", "SUB">>, <<"mul", "Mul", "MUL">>,
      <<"div", "Div", "DIV">>, <<"contains", "Contains", "CONTAINS">>,
      <<"startswith", "StartsWith", "STARTSWITH">>,
      <<"endswith", "EndsWith", "ENDSWITH">>, <<"concat", "Concat", "CONCAT">>,
      <<"regex", "Regex", "REGEX">>, <<"dateadd", "DateAdd", "DATEADD">>,
      <<"datediffminutes", "DateDiffMinutes", "DATEDIFFMINUTES">>,
      <<"coalesce", "Coalesce", "COALESCE">>, <<"case", "Case", "CASE">>,
      <<"exists", "Exists", "EXISTS">>, <<"myfunc", "MyFunc", "MYFUNC">>,
      <<"int", "Int", "INT">>, <<"integer", "Integer", "INTEGER">>,
      <<"string", "String", "STRING">>, <<"boolean", "Boolean", "BOOLEAN">>,
      <<"datetime", "DateTime", "DATETIME">>, <<"money", "Money", "MONEY">>,
      <<"day", "Day", "DAY">>, <<"days", "Days", "DAYS">>,
      <<"month", "Month", "MONTH">>,
      <<"sum", "Sum", "SUM">>, <<"count", "Count", "COUNT">>, <<"avg", "Avg", "AVG">>,
      <<"min", "Min", "MIN">>, <<"max", "Max", "MAX">>,
      <<"distinctcount", "DistinctCount", "DISTINCTCOUNT">>,
      <<"countrows", "CountRows", "COUNTROWS">>, <<"first", "First", "FIRST">>,
      <<"last", "Last", "LAST">>, <<"stdev", "Stdev", "STDEV">>,
      <<"var", "Var", "VAR">>, <<"median", "Median", "MEDIAN">>,
      <<"rank", "Rank", "RANK">>, <<"ytd", "Ytd", "YTD">>, <<"mtd", "Mtd", "MTD">>,
      <<"status", "Status", "STATUS">>,
      <<"higherisbetter", "HigherIsBetter", "HIGHERISBETTER">>,
      <<"higherbetter", "HigherBetter", "HIGHERBETTER">>,
      <<"lowerisbetter", "LowerIsBetter", "LOWERISBETTER">>,
      <<"maximize", "Maximize", "MAXIMIZE">>, <<"minimize", "Minimize", "MINIMIZE">> }

LowerAtom(a) ==
    IF \E p \in CaseTable : a \in {p[1], p[2], p[3]}
    THEN (CHOOSE p \in CaseTable : a \in {p[1], p[2], p[3]})[1]
    ELSE a

UpperAtom(a) ==
    IF \E p \in CaseTable : a \in {p[1], p[2], p[3]}
    THEN (CHOOSE p \in CaseTable : a \in {p[1], p[2], p[3]})[3]
    ELSE a

Lower(s) == [i \in 1..Len(s) |-> LowerAtom(s[i])]
\* variant of Upper: the text is left in the case it came in
Upper_unchanged(s) == s
Upper(s) == [i \in 1..Len(s) |-> UpperAtom(s[i])]

(***************************************************************************)
(* Python / JSON values                                                    *)
(***************************************************************************)
None == [k |-> "null", v |-> 0]
Bool(b) == [k |-> "bool", v |-> b]
Num(n) == [k |-> "num", v |-> n]
Str(s) == [k |-> "str", v |-> s]
Word(a) == [k |-> "str", v |-> <<a>>]
List(items) == [k |-> "list", v |-> items]
Map(m) == [k |-> "map", v |-> m]
EmptyMap == [k |-> "map", v |-> [x \in {} |-> None]]
\* a Python object that is no JSON value: an already parsed expression node
Obj(e) == [k |-> "obj", v |-> e]

IsStr(j) == j.k = "str"
IsMap(j) == j.k = "map"
HasKey(j, key) == key \in DOMAIN j.v
\* dict.get(key, default)
Get(j, key, default) == IF key \in DOMAIN j.v THEN j.v[key] ELSE default

\* Python truthiness of a value
Truthy(j) ==
    CASE j.k = "null" -> FALSE
      [] j.k = "bool" -> j.v
      [] j.k = "num"  -> j.v # 0
      [] j.k = "str"  -> j.v # <<>>
      [] j.k = "list" -> j.v # <<>>
      [] j.k = "map"  -> DOMAIN j.v # {}
      [] j.k = "obj"  -> TRUE
      [] j.k = "float" -> TRUE

\* Outcomes
Ok(text) == [ok |-> TRUE, text |-> text, err |-> ""]
Raise(e) == [ok |-> FALSE, text |-> <<>>, err |-> e]

\* The order in which the enumerated documents hold their keys (dicts keep
\* insertion order; it shows only in str(dict) and json.dumps(dict)).
KeyOrder ==
    <<"kind", "version", "description", "expr", "op", "args", "ref", "as", "lit",
      "type", "foo", "timeIntel", "agg", "metric", "arg", "field", "table", "filter",
      "dateColumn", "date", "offset", "left", "right", "if", "then", "else",
      "coalesce", "divide", "numerator", "denominator", "alternate", "window",
      "partitionBy", "orderBy", "alias", "red", "critical", "yellow", "warning",
      "green", "good", "code", "kpiCode", "KPI_Code", "metricCode", "KPI_MetricCode",
      "direction", "KPI_Direction", "thresholds", "KPI_ThresholdsJSON", "targetValue",
      "KPI_TargetValue", "MT_Code", "formula", "expressionLogical", "MT_FormulaJSON",
      "notes">>

KeysOf(m) == SelectSeq(KeyOrder, LAMBDA key : key \in DOMAIN m)

\* repr(str): single quotes unless the text holds SQ and no DQ
PyReprStr(s) ==
    IF (\E i \in 1..Len(s) : s[i] = SQ) /\ (\A i \in 1..Len(s) : s[i] # DQ)
    THEN <<DQ>> \o s \o <<DQ>>
    ELSE <<SQ>> \o Concat([i \in 1..Len(s) |->
                    IF s[i] = SQ THEN <<"\\", SQ>> ELSE <<s[i]>>]) \o <<SQ>>

\* repr(value); str(value) of a container is its repr
RECURSIVE PyRepr(_)
PyRepr(j) ==
    CASE j.k = "null" -> <<"None">>
      [] j.k = "obj"  -> <<j.v.t, "(...)">>
      [] j.k = "float" -> j.v
      [] j.k = "bool" -> IF j.v THEN <<"True">> ELSE <<"False">>
      [] j.k = "num"  -> <<ToString(j.v)>>
      [] j.k = "str"  -> PyReprStr(j.v)
      [] j.k = "list" ->
            <<"[">> \o Join([i \in 1..Len(j.v) |-> PyRepr(j.v[i])], <<",", " ">>)
                    \o <<"]">>
      [] j.k = "map"  ->
            LET ks == KeysOf(j.v)
            IN  <<"{">> \o Join([i \in 1..Len(ks) |->
                            PyReprStr(<<ks[i]>>) \o <<":", " ">> \o PyRepr(j.v[ks[i]])],
                          <<",", " ">>) \o <<"}">>

\* a float, kept as the decimal text that float() read and str() writes back
Float(text) == [k |-> "float", v |-> text]

\* str(value)
PyStr(j) == IF j.k \in {"str", "float"} THEN j.v ELSE PyRepr(j)

\* json.dumps(value)
RECURSIVE JsonDumps(_)
JsonDumps(j) ==
    CASE j.k = "null" -> <<"null">>
      [] j.k = "bool" -> IF j.v THEN <<"true">> ELSE <<"false">>
      [] j.k = "num"  -> <<ToString(j.v)>>
      [] j.k = "float" -> j.v
      [] j.k = "str"  ->
            <<DQ>> \o Concat([i \in 1..Len(j.v) |->
                        IF j.v[i] = DQ THEN <<"\\", DQ>> ELSE <<j.v[i]>>]) \o <<DQ>>
      [] j.k = "list" ->
            <<"[">> \o Join([i \in 1..Len(j.v) |-> JsonDumps(j.v[i])], <<",", " ">>)
                    \o <<"]">>
      [] j.k = "map"  ->
            LET ks == KeysOf(j.v)
            IN  <<"{">> \o Join([i \in 1..Len(ks) |->
                            <<DQ, ks[i], DQ, ":", " ">> \o JsonDumps(j.v[ks[i]])],
                          <<",", " ">>) \o <<"}">>

(***************************************************************************)
(* Guard DSL: expression tree and parser  (compiler/dsl/parser.py)         *)
(***************************************************************************)
Literal(value, type) == [t |-> "Literal", value |-> value, type |-> type]
Ref(path, cast) == [t |-> "Ref", path |-> path, cast |-> cast]
Op(op, args) == [t |-> "Op", op |-> op, args |-> args]
\* an exception leaving the parser
ParseRaise(e) == [t |-> "Raise", err |-> e]

IsExpr(x) == x.t \in {"Literal", "Ref", "Op"}

TenantExpr ==
    Op(Word("eq"), <<Ref(Str(<<"_TenantID">>), None),
                     Ref(Str(<<"context", DOT, "tenantId">>), None)>>)

RECURSIVE parse_expr(_)
parse_expr(node) ==
    CASE node.k = "null" -> Literal(None, Word("null"))
      [] node.k = "bool" -> Literal(node, Word("boolean"))
      [] node.k = "num"  -> Literal(node, Word("number"))
      [] node.k = "str"  ->
            IF node.v \in {<<"allow">>, <<"true">>, <<"1=1">>}
            THEN Literal(Bool(TRUE), Word("boolean"))
            ELSE IF node.v \in {<<"deny">>, <<"false">>, <<"1=0">>}
            THEN Literal(Bool(FALSE), Word("boolean"))
            ELSE IF node.v = <<"tenant">> THEN TenantExpr
            ELSE Literal(node, Word("string"))
      [] node.k \notin {"null", "bool", "num", "str", "map"} ->
            Literal(node, Word("unknown"))
      [] OTHER ->
            IF HasKey(node, "lit") THEN Literal(node.v["lit"], Get(node, "type", None))
            ELSE IF HasKey(node, "ref") THEN Ref(node.v["ref"], Get(node, "as", None))
            ELSE IF HasKey(node, "op") THEN
                LET rawArgs == Get(node, "args", List(<<>>))
                    \* iterating a str gives its characters, a dict its keys
                    items == CASE rawArgs.k = "list" -> rawArgs.v
                               [] rawArgs.k = "str"  ->
                                    [i \in 1..Len(rawArgs.v) |-> Word(rawArgs.v[i])]
                               [] rawArgs.k = "map"  ->
                                    [i \in 1..Len(KeysOf(rawArgs.v)) |->
                                        Word(KeysOf(rawArgs.v)[i])]
                               [] OTHER -> <<>>
                IN  IF rawArgs.k \notin {"list", "str", "map"}
                    THEN ParseRaise("TypeError")      \* iterating a non-iterable
                    ELSE LET args == [i \in 1..Len(items) |-> parse_expr(items[i])]
                         IN  IF \E i \in 1..Len(args) : args[i].t = "Raise"
                             THEN args[CHOOSE i \in 1..Len(args) :
                                        args[i].t = "Raise"
                                        /\ \A m \in 1..(i-1) : args[m].t # "Raise"]
                             ELSE Op(node.v["op"], args)
            ELSE Literal(node, Word("object"))

(***************************************************************************)
(* Enumerated guard inputs                                                 *)
(***************************************************************************)
SeqsUpTo(S, n) == UNION {[1..m -> S] : m \in 0..n}

RefDoc(path) == Map([ref |-> Str(path)])
LitDoc(value) == Map([lit |-> value])
OpDoc(name, args) == Map([op |-> name, args |-> List(args)])

KnownOps ==
    {"and", "or", "not", "eq", "ne", "gt", "gte", "lt", "lte", "in", "isnull",
     "isnotnull", "add", "sub", "mul", "div", "contains", "startswith", "endswith",
     "concat", "regex", "dateadd", "datediffminutes", "coalesce", "case", "exists"}

\* operator names tried: the recognised ones, one in another casing, an unknown one
OpNames == KnownOps \cup {"AND", "myfunc", "MyFunc"}

ArgLeaves == { RefDoc(<<"Status">>), LitDoc(Str(<<"day">>)), LitDoc(Num(1)) }

OpDocs ==
    { OpDoc(Word(n), a) : n \in OpNames, a \in SeqsUpTo(ArgLeaves, MaxArgs) }
    \cup { Map([op |-> Word(n)]) : n \in {"and", "eq", "myfunc"} }
    \cup { Map([op |-> Num(1), args |-> List(<<>>)]),
           Map([op |-> Word("and"), args |-> Num(1)]) }

StatusActive == OpDoc(Word("eq"), <<RefDoc(<<"Status">>), LitDoc(Str(<<"Active">>))>>)
TypeInAB ==
    OpDoc(Word("in"), <<RefDoc(<<"Type">>), LitDoc(Str(<<"A">>)), LitDoc(Str(<<"B">>))>>)

NestedDocs ==
    { StatusActive, TypeInAB,
      OpDoc(Word("and"), <<StatusActive, TypeInAB>>),
      OpDoc(Word("not"), <<OpDoc(Word("not"), <<>>)>>),
      OpDoc(Word("case"), <<StatusActive, LitDoc(Num(1)), TypeInAB, LitDoc(Num(2)),
                             LitDoc(Num(3))>>) }

\* strings used as literal values: plain, holding the quote characters, empty
LitStrs ==
    { <<"Active">>, <<"it", SQ, "s">>, <<SQ>>, <<SQ, SQ>>, <<"say", DQ, "hi", DQ>>,
      <<"a", SQ, "b", DQ, "c">>, <<>> }

RefPaths ==
    { <<"Status">>, <<"Sales", DOT, "Amount">>, <<"_TenantID">>,
      <<"context", DOT, "tenantId">>, <<"context", DOT, "userId">>,
      <<"context", DOT, "now">>, <<"context", DOT, "region">>,
      <<"user", DOT, "role">>, <<"user", DOT, "roles">>, <<"user", DOT, "dept">> }

LeafDocs ==
    { None, Bool(TRUE), Bool(FALSE), Num(0), Num(1),
      Word("allow"), Word("true"), Word("1=1"), Word("deny"), Word("false"),
      Word("1=0"), Word("tenant"), Word("x"),
      List(<<>>), List(<<Num(1), Word("x")>>), EmptyMap, Map([foo |-> Num(1)]) }
    \cup { LitDoc(Str(s)) : s \in LitStrs }
    \cup { LitDoc(None), LitDoc(Bool(TRUE)), LitDoc(Bool(FALSE)), LitDoc(Num(1)),
           LitDoc(List(<<Word("x")>>)), LitDoc(Map([foo |-> Word("x")])) }
    \cup { RefDoc(p) : p \in RefPaths }
    \cup { Map([ref |-> Str(<<"Sales", DOT, "Amount">>), as |-> Word(c)]) :
             c \in {"int", "String", "money"} }
    \cup { Map([ref |-> Num(1)]), Map([ref |-> Str(<<"Status">>), as |-> Num(1)]) }

ExprNodes == LeafDocs \cup OpDocs \cup NestedDocs

\* envelopes that carry no expression
NoExprDocs ==
    { EmptyMap, Map([kind |-> Word("Guard")]),
      Map([kind |-> Word("Guard"), version |-> Num(1), description |-> Word("x")]),
      Map([foo |-> Num(1)]) }

\* maps without an expr key that are themselves expression nodes
DirectDocs ==
    { LitDoc(Bool(FALSE)), LitDoc(Str(<<"Active">>)), RefDoc(<<"Status">>),
      OpDoc(Word("and"), <<>>), StatusActive,
      Map([kind |-> Word("Guard"), lit |-> Bool(FALSE)]) }

\* the values whose JSON text is tried as a guard string
JsonUniverse ==
    NoExprDocs \cup DirectDocs
    \cup { Map([expr |-> e]) : e \in {Bool(TRUE), Bool(FALSE), Word("x"), List(<<>>),
                                      EmptyMap, StatusActive, OpDoc(Word("not"), <<>>)} }
    \cup { None, Bool(TRUE), Bool(FALSE), Num(1), Word("allow"), Word("x"),
           List(<<>>), List(<<EmptyMap>>) }

\* threshold maps whose JSON text is tried as a KPI thresholds string
ThresholdMaps ==
    { Map([red |-> Num(1), yellow |-> Num(2)]),
      Map([red |-> Num(1), yellow |-> Num(2), green |-> Num(3)]),
      Map([critical |-> Num(1), warning |-> Num(2), good |-> Num(3)]) }

\* the values json.loads can return here
JsonTexts == JsonUniverse \cup ThresholdMaps

\* strings that are neither a shorthand nor JSON text
PlainStrs == { <<"x">>, <<"Status", " ", "=", " ", "1">>, <<>>, <<"{">>, <<"Allow">> }

GuardDocs ==
    { Word(w) : w \in {"allow", "true", "1=1", "deny", "false", "1=0", "tenant"} }
    \cup { Str(s) : s \in PlainStrs }
    \cup { Str(JsonDumps(j)) : j \in JsonUniverse }
    \cup { Map([expr |-> e]) : e \in ExprNodes }
    \cup { Map([expr |-> Obj(TenantExpr)]),
           Map([expr |-> Obj(Literal(Bool(TRUE), Word("boolean")))]) }
    \cup NoExprDocs \cup DirectDocs
    \cup { None, Bool(TRUE), Num(1), List(<<>>) }

\* target names tried: every profile, the aliases, other casings, unknown names
GuardTargets ==
    { "tsql", "TSQL", "Tsql", "sqlserver", "SqlServer", "postgres", "POSTGRES",
      "snowflake", "spark", "Spark", "databricks", "bigquery", "dax", "powerbi",
      "oracle", "ORACLE" }

(***************************************************************************)
(* json.loads and parse_dsl                                                *)
(***************************************************************************)
\* json.loads(text): the value whose JSON text this is; JSONDecodeError otherwise
JsonValid(text) == \E j \in JsonTexts : JsonDumps(j) = text
JsonLoads(text) == CHOOSE j \in JsonTexts : JsonDumps(j) = text

\* the dict parse_dsl returns, reduced to its expr entry
Parsed(hasExpr, expr) == [t |-> "Parsed", hasExpr |-> hasExpr, expr |-> expr]

parse_dsl_map(dsl) ==
    IF ~IsMap(dsl) THEN Parsed(TRUE, Literal(Bool(FALSE), Word("boolean")))
    ELSE IF HasKey(dsl, "expr")
         THEN LET e == parse_expr(dsl.v["expr"])
              IN  IF e.t = "Raise" THEN e ELSE Parsed(TRUE, e)
         ELSE Parsed(FALSE, None)

\* variant of parse_dsl that treats a string it cannot read as a document
\* without an expression
parse_dsl_lenient(dsl) ==
    IF IsStr(dsl) THEN
        IF dsl.v \in {<<"allow">>, <<"true">>, <<"1=1">>}
        THEN Parsed(TRUE, Literal(Bool(TRUE), Word("boolean")))
        ELSE IF dsl.v \in {<<"deny">>, <<"false">>, <<"1=0">>}
        THEN Parsed(TRUE, Literal(Bool(FALSE), Word("boolean")))
        ELSE IF dsl.v = <<"tenant">> THEN Parsed(TRUE, TenantExpr)
        ELSE IF ~JsonValid(dsl.v) THEN Parsed(FALSE, None)
        ELSE parse_dsl_map(JsonLoads(dsl.v))
    ELSE parse_dsl_map(dsl)

parse_dsl(dsl) ==
    IF IsStr(dsl) THEN
        IF dsl.v \in {<<"allow">>, <<"true">>, <<"1=1">>}
        THEN Parsed(TRUE, Literal(Bool(TRUE), Word("boolean")))
        ELSE IF dsl.v \in {<<"deny">>, <<"false">>, <<"1=0">>}
        THEN Parsed(TRUE, Literal(Bool(FALSE), Word("boolean")))
        ELSE IF dsl.v = <<"tenant">> THEN Parsed(TRUE, TenantExpr)
        ELSE IF ~JsonValid(dsl.v)
        THEN Parsed(TRUE, Literal(Bool(FALSE), Word("boolean")))
        ELSE parse_dsl_map(JsonLoads(dsl.v))
    ELSE parse_dsl_map(dsl)

(***************************************************************************)
(* Guard DSL compiler  (compiler/dsl/compiler.py)                          *)
(***************************************************************************)
IsTsql(self) == self.target \in {"tsql", "sqlserver"}
IsSpark(self) == self.target \in {"spark", "databricks"}

Profile(target, idq, idqEnd, trueLit, falseLit, concatOp, now) ==
    [target |-> target, id_quote |-> idq, id_quote_end |-> idqEnd, str_quote |-> SQ,
     true_lit |-> <<trueLit>>, false_lit |-> <<falseLit>>, null_lit |-> <<"NULL">>,
     concat_op |-> <<concatOp>>, current_timestamp |-> <<now>>]

\* DSLCompiler.__init__ with _setup_dialect: the instance for a target name
DSLCompiler(target) ==
    LET t == LowerAtom(target)
    IN  CASE t \in {"tsql", "sqlserver"} ->
                Profile(t, "[", "]", "1", "0", "+", "GETUTCDATE()")
          [] t = "postgres" ->
                Profile(t, DQ, DQ, "TRUE", "FALSE", "||", "NOW()")
          [] t = "snowflake" ->
                Profile(t, DQ, DQ, "TRUE", "FALSE", "||", "CURRENT_TIMESTAMP()")
          [] t \in {"spark", "databricks"} ->
                Profile(t, BT, BT, "TRUE", "FALSE", "||", "CURRENT_TIMESTAMP()")
          [] t = "bigquery" ->
                Profile(t, BT, BT, "TRUE", "FALSE", "||", "CURRENT_TIMESTAMP()")
          [] OTHER ->
                Profile(t, DQ, DQ, "TRUE", "FALSE", "||", "CURRENT_TIMESTAMP")

\* variant of quote_identifier: the whole path is quoted as one name
quote_identifier_unsplit(self, name) ==
    <<self.id_quote>> \o name \o <<self.id_quote_end>>

quote_identifier(self, name) ==
    LET parts == SplitDot(name)
    IN  Join([i \in 1..Len(parts) |->
                <<self.id_quote>> \o parts[i] \o <<self.id_quote_end>>], <<DOT>>)

\* variant of quote_string that does not double the quote character
quote_string_raw(self, value) == <<self.str_quote>> \o value \o <<self.str_quote>>

quote_string(self, value) ==
    <<self.str_quote>> \o Replace2(value, self.str_quote) \o <<self.str_quote>>

compile_literal(self, lit) ==
    CASE lit.value.k = "null" -> self.null_lit
      [] lit.value.k = "bool" -> IF lit.value.v THEN self.true_lit ELSE self.false_lit
      [] lit.value.k = "num"  -> <<ToString(lit.value.v)>>
      [] lit.value.k = "str"  -> quote_string(self, lit.value.v)
      [] OTHER                -> quote_string(self, PyStr(lit.value))

\* variant of _context_tenant_id that knows the bind parameter only
context_tenant_id_param(self) == <<"@TenantId">>

context_tenant_id(self) ==
    CASE IsTsql(self) -> <<"SESSION_CONTEXT", "(", "N", SQ, "TenantId", SQ, ")">>
      [] self.target = "postgres" ->
            <<"current_setting", "(", SQ, "app.tenant_id", SQ, ")">>
      [] self.target = "snowflake" -> <<"CURRENT_SESSION()::VARIANT:tenant_id">>
      [] IsSpark(self) -> <<"current_user()">>
      [] OTHER -> <<"@TenantId">>

context_user_id(self) ==
    CASE IsTsql(self) -> <<"SESSION_CONTEXT", "(", "N", SQ, "UserId", SQ, ")">>
      [] self.target = "postgres" ->
            <<"current_setting", "(", SQ, "app.user_id", SQ, ")">>
      [] self.target = "snowflake" -> <<"CURRENT_USER()">>
      [] IsSpark(self) -> <<"current_user()">>
      [] OTHER -> <<"@UserId">>

user_ref(self, field) ==
    IF field = <<"role">>
    THEN (IF IsTsql(self)
          THEN <<"SESSION_CONTEXT", "(", "N", SQ, "UserRole", SQ, ")">>
          ELSE <<"@UserRole">>)
    ELSE IF field = <<"roles">>
    THEN (IF IsTsql(self)
          THEN <<"SESSION_CONTEXT", "(", "N", SQ, "UserRoles", SQ, ")">>
          ELSE <<"@UserRoles">>)
    ELSE <<"@User_">> \o field

apply_cast(self, expr, cast_type) ==
    LET c == Lower(cast_type)
        sql_type ==
            CASE c \in {<<"int">>, <<"integer">>} -> <<"INT">>
              [] c = <<"string">> ->
                    IF IsTsql(self) THEN <<"VARCHAR(MAX)">> ELSE <<"TEXT">>
              [] c = <<"boolean">> -> IF IsTsql(self) THEN <<"BIT">> ELSE <<"BOOLEAN">>
              [] c = <<"datetime">> ->
                    IF IsTsql(self) THEN <<"DATETIME2">> ELSE <<"TIMESTAMP">>
              [] OTHER -> Upper(cast_type)
    IN  <<"CAST", "(">> \o expr \o <<" ", "AS", " ">> \o sql_type \o <<")">>

\* context: the caller's override map, a function from paths to text
compile_ref(self, ref, context) ==
    LET path == ref.path
    IN  IF path.k \in {"list", "map"} THEN Raise("TypeError")     \* unhashable key
        ELSE IF IsStr(path) /\ path.v \in DOMAIN context THEN Ok(context[path.v])
        ELSE IF ~IsStr(path) THEN Raise("AttributeError")        \* no startswith
        ELSE IF StartsWith(path.v, <<"context", DOT>>) THEN
            LET ctx_key == SubSeq(path.v, 3, Len(path.v))
            IN  IF ctx_key = <<"tenantId">> THEN Ok(context_tenant_id(self))
                ELSE IF ctx_key = <<"userId">> THEN Ok(context_user_id(self))
                ELSE IF ctx_key = <<"now">> THEN Ok(self.current_timestamp)
                ELSE Ok(<<"@">> \o ctx_key)
        ELSE IF StartsWith(path.v, <<"user", DOT>>)
        THEN Ok(user_ref(self, SubSeq(path.v, 3, Len(path.v))))
        ELSE LET result == quote_identifier(self, path.v)
             IN  IF ~Truthy(ref.cast) THEN Ok(result)
                 ELSE IF ~IsStr(ref.cast) THEN Raise("AttributeError")   \* no lower
                 ELSE Ok(apply_cast(self, result, ref.cast.v))

compile_contains(self, field, value) ==
    IF IsTsql(self)
    THEN <<"(", "CHARINDEX", "(">> \o value \o <<",", " ">> \o field
            \o <<")", " ", ">", " ", "0", ")">>
    ELSE <<"(">> \o field \o <<" ", "LIKE", " ", SQ, "%", SQ, " ">> \o self.concat_op
            \o <<" ">> \o value \o <<" ">> \o self.concat_op \o <<" ", SQ, "%", SQ, ")">>

compile_startswith(self, field, value) ==
    IF IsTsql(self)
    THEN <<"(">> \o field \o <<" ", "LIKE", " ">> \o value
            \o <<" ", "+", " ", SQ, "%", SQ, ")">>
    ELSE <<"(">> \o field \o <<" ", "LIKE", " ">> \o value \o <<" ">> \o self.concat_op
            \o <<" ", SQ, "%", SQ, ")">>

compile_endswith(self, field, value) ==
    IF IsTsql(self)
    THEN <<"(">> \o field \o <<" ", "LIKE", " ", SQ, "%", SQ, " ", "+", " ">> \o value
            \o <<")">>
    ELSE <<"(">> \o field \o <<" ", "LIKE", " ", SQ, "%", SQ, " ">> \o self.concat_op
            \o <<" ">> \o value \o <<")">>

compile_regex(self, field, pattern) ==
    CASE IsTsql(self) -> <<"(">> \o field \o <<" ", "LIKE", " ">> \o pattern \o <<")">>
      [] self.target = "postgres" ->
            <<"(">> \o field \o <<" ", "~", " ">> \o pattern \o <<")">>
      [] IsSpark(self) -> <<"(">> \o field \o <<" ", "RLIKE", " ">> \o pattern \o <<")">>
      [] OTHER ->
            <<"(", "REGEXP_LIKE", "(">> \o field \o <<",", " ">> \o pattern \o <<")", ")">>

compile_dateadd(self, args) ==
    IF Len(args) < 3 THEN <<"NULL">>
    ELSE LET unit == args[1]
             amount == args[2]
             date == args[3]
             unit_clean == Upper(StripQuotes(unit))
             generic == <<"DATEADD", "(">> \o unit_clean \o <<",", " ">> \o amount
                            \o <<",", " ">> \o date \o <<")">>
         IN  CASE IsTsql(self) -> generic
               [] self.target = "postgres" ->
                    <<"(">> \o date \o <<" ", "+", " ", "INTERVAL", " ", SQ>> \o amount
                        \o <<" ">> \o unit_clean \o <<SQ, ")">>
               [] self.target = "snowflake" -> generic
               [] IsSpark(self) ->
                    IF unit_clean \in {<<"DAY">>, <<"DAYS">>}
                    THEN <<"DATE_ADD", "(">> \o date \o <<",", " ">> \o amount \o <<")">>
                    ELSE <<"(">> \o date \o <<" ", "+", " ", "INTERVAL", " ">> \o amount
                            \o <<" ">> \o unit_clean \o <<")">>
               [] OTHER -> generic

compile_datediff_minutes(self, date1, date2) ==
    LET generic == <<"DATEDIFF", "(", "MINUTE", ",", " ">> \o date1 \o <<",", " ">>
                        \o date2 \o <<")">>
    IN  CASE IsTsql(self) -> generic
          [] self.target = "postgres" ->
                <<"EXTRACT", "(", "EPOCH", " ", "FROM", " ", "(">> \o date2
                    \o <<" ", "-", " ">> \o date1 \o <<")", ")", " ", "/", " ", "60">>
          [] self.target = "snowflake" -> generic
          [] IsSpark(self) ->
                <<"(", "UNIX_TIMESTAMP", "(">> \o date2
                    \o <<")", " ", "-", " ", "UNIX_TIMESTAMP", "(">> \o date1
                    \o <<")", ")", " ", "/", " ", "60">>
          [] OTHER -> generic

\* the first exception among outcomes rs, in evaluation order
FirstRaise(rs) ==
    rs[CHOOSE i \in 1..Len(rs) : ~rs[i].ok /\ \A m \in 1..(i-1) : rs[m].ok]

\* f"({args[0]} SYM {args[1]})"
Infix(args, sym) ==
    IF Len(args) < 2 THEN Raise("IndexError")
    ELSE Ok(<<"(">> \o args[1] \o <<" ", sym, " ">> \o args[2] \o <<")">>)

RECURSIVE compile_expr(_, _, _)
RECURSIVE compile_op(_, _, _)
RECURSIVE compile_case(_, _, _, _)

\* variant of compile_case: an odd trailing argument is not rendered
compile_case_without_else(self, args, context, i) ==
    IF i < Len(args) THEN
        LET cond == compile_expr(self, args[i], context)
            result == compile_expr(self, args[i + 1], context)
            rest == compile_case(self, args, context, i + 2)
        IN  IF ~cond.ok THEN cond
            ELSE IF ~result.ok THEN result
            ELSE IF ~rest.ok THEN rest
            ELSE Ok(<<" ", "WHEN", " ">> \o cond.text \o <<" ", "THEN", " ">>
                        \o result.text \o rest.text)
    ELSE Ok(<<>>)

\* _compile_case from loop index i on: the WHEN / ELSE parts still to emit
compile_case(self, args, context, i) ==
    IF i < Len(args) THEN
        LET cond == compile_expr(self, args[i], context)
            result == compile_expr(self, args[i + 1], context)
            rest == compile_case(self, args, context, i + 2)
        IN  IF ~cond.ok THEN cond
            ELSE IF ~result.ok THEN result
            ELSE IF ~rest.ok THEN rest
            ELSE Ok(<<" ", "WHEN", " ">> \o cond.text \o <<" ", "THEN", " ">>
                        \o result.text \o rest.text)
    ELSE IF i = Len(args) THEN
        LET else_result == compile_expr(self, args[i], context)
        IN  IF ~else_result.ok THEN else_result
            ELSE Ok(<<" ", "ELSE", " ">> \o else_result.text)
    ELSE Ok(<<>>)

compile_op(self, op, context) ==
    IF ~IsStr(op.op) THEN Raise("AttributeError")          \* op.op.lower()
    ELSE
    LET op_name == Lower(op.op.v)
        rs == [i \in 1..Len(op.args) |-> compile_expr(self, op.args[i], context)]
    IN  IF \E i \in 1..Len(rs) : ~rs[i].ok THEN FirstRaise(rs)
        ELSE
        LET args == [i \in 1..Len(rs) |-> rs[i].text]
            Unary(pre, post) ==
                IF Len(args) < 1 THEN Raise("IndexError")
                ELSE Ok(pre \o args[1] \o post)
        IN  CASE op_name = <<"and">> ->
                    Ok(<<"(">> \o Join(args, <<" ", "AND", " ">>) \o <<")">>)
              [] op_name = <<"or">> ->
                    Ok(<<"(">> \o Join(args, <<" ", "OR", " ">>) \o <<")">>)
              [] op_name = <<"not">> -> Unary(<<"(", "NOT", " ">>, <<")">>)
              [] op_name = <<"eq">> -> Infix(args, "=")
              [] op_name = <<"ne">> -> Infix(args, "<>")
              [] op_name = <<"gt">> -> Infix(args, ">")
              [] op_name = <<"gte">> -> Infix(args, ">=")
              [] op_name = <<"lt">> -> Infix(args, "<")
              [] op_name = <<"lte">> -> Infix(args, "<=")
              [] op_name = <<"in">> ->
                    IF Len(args) < 1 THEN Raise("IndexError")
                    ELSE Ok(<<"(">> \o args[1] \o <<" ", "IN", " ", "(">>
                            \o Join(Tail(args), <<",", " ">>) \o <<")", ")">>)
              [] op_name = <<"isnull">> -> Unary(<<"(">>, <<" ", "IS", " ", "NULL", ")">>)
              [] op_name = <<"isnotnull">> ->
                    Unary(<<"(">>, <<" ", "IS", " ", "NOT", " ", "NULL", ")">>)
              [] op_name = <<"add">> -> Infix(args, "+")
              [] op_name = <<"sub">> -> Infix(args, "-")
              [] op_name = <<"mul">> -> Infix(args, "*")
              [] op_name = <<"div">> -> Infix(args, "/")
              [] op_name = <<"contains">> ->
                    IF Len(args) < 2 THEN Raise("IndexError")
                    ELSE Ok(compile_contains(self, args[1], args[2]))
              [] op_name = <<"startswith">> ->
                    IF Len(args) < 2 THEN Raise("IndexError")
                    ELSE Ok(compile_startswith(self, args[1], args[2]))
              [] op_name = <<"endswith">> ->
                    IF Len(args) < 2 THEN Raise("IndexError")
                    ELSE Ok(compile_endswith(self, args[1], args[2]))
              [] op_name = <<"concat">> ->
                    Ok(<<"(">> \o Join(args, <<" ">> \o self.concat_op \o <<" ">>)
                        \o <<")">>)
              [] op_name = <<"regex">> ->
                    IF Len(args) < 2 THEN Raise("IndexError")
                    ELSE Ok(compile_regex(self, args[1], args[2]))
              [] op_name = <<"dateadd">> -> Ok(compile_dateadd(self, args))
              [] op_name = <<"datediffminutes">> ->
                    IF Len(args) < 2 THEN Raise("IndexError")
                    ELSE Ok(compile_datediff_minutes(self, args[1], args[2]))
              [] op_name = <<"coalesce">> ->
                    Ok(<<"COALESCE", "(">> \o Join(args, <<",", " ">>) \o <<")">>)
              [] op_name = <<"case">> ->
                    LET parts == compile_case(self, op.args, context, 1)
                    IN  IF ~parts.ok THEN parts
                        ELSE Ok(<<"CASE">> \o parts.text \o <<" ", "END">>)
              [] op_name = <<"exists">> -> Unary(<<"EXISTS", " ", "(">>, <<")">>)
              [] OTHER ->
                    Ok(Upper(op_name) \o <<"(">> \o Join(args, <<",", " ">>) \o <<")">>)

compile_expr(self, expr, context) ==
    CASE expr.t = "Literal" -> Ok(compile_literal(self, expr))
      [] expr.t = "Ref"     -> compile_ref(self, expr, context)
      [] expr.t = "Op"      -> compile_op(self, expr, context)
      [] OTHER              -> Ok(<<"NULL">>)

NoContext == [x \in {} |-> <<>>]

\* the expression compile_guard settles on: an Expr, "NoExpr", or a raised error
guard_expr(dsl) ==
    IF IsStr(dsl) THEN
        LET parsed == parse_dsl(dsl)
        IN  IF parsed.t = "Raise" THEN parsed
            ELSE IF parsed.hasExpr THEN parsed.expr ELSE [t |-> "NoExpr"]
    ELSE IF IsMap(dsl) THEN
        IF HasKey(dsl, "expr") THEN
            LET raw_expr == dsl.v["expr"]
            IN  IF raw_expr.k = "obj" /\ IsExpr(raw_expr.v) THEN raw_expr.v
                ELSE parse_expr(raw_expr)
        ELSE IF HasKey(dsl, "op") \/ HasKey(dsl, "ref") \/ HasKey(dsl, "lit")
        THEN parse_expr(dsl)
        ELSE LET parsed == parse_dsl(dsl)
             IN  IF parsed.t = "Raise" THEN parsed
                 ELSE IF parsed.hasExpr THEN parsed.expr ELSE [t |-> "NoExpr"]
    ELSE Literal(Bool(FALSE), Word("boolean"))

\* variant of compile_guard that denies when the document holds no expression
compile_guard_default_deny(self, dsl) ==
    LET expr == guard_expr(dsl)
    IN  IF expr.t = "Raise" THEN Raise(expr.err)
        ELSE IF expr.t = "NoExpr" THEN Ok(self.false_lit)
        ELSE compile_expr(self, expr, NoContext)

compile_guard(self, dsl) ==
    LET expr == guard_expr(dsl)
    IN  IF expr.t = "Raise" THEN Raise(expr.err)
        ELSE IF expr.t = "NoExpr" THEN Ok(self.true_lit)
        ELSE compile_expr(self, expr, NoContext)

compile_dsl(dsl, target) == compile_guard(DSLCompiler(target), dsl)

(***************************************************************************)
(* Guard claims                                                            *)
(***************************************************************************)
GuardShorthands ==
    {<<"allow">>, <<"true">>, <<"1=1">>, <<"deny">>, <<"false">>, <<"1=0">>, <<"tenant">>}

\* a node whose op names, args lists, ref paths and casts have the documented types
RECURSIVE WellTypedNode(_)
WellTypedNode(n) ==
    IF ~IsMap(n) \/ HasKey(n, "lit") THEN TRUE
    ELSE IF HasKey(n, "ref")
    THEN IsStr(n.v["ref"]) /\ (HasKey(n, "as") => n.v["as"].k \in {"str", "null"})
    ELSE IF HasKey(n, "op")
    THEN /\ IsStr(n.v["op"])
         /\ HasKey(n, "args") =>
                /\ n.v["args"].k = "list"
                /\ \A i \in 1..Len(n.v["args"].v) : WellTypedNode(n.v["args"].v[i])
    ELSE TRUE

WellTypedGuard(dsl) ==
    IF IsStr(dsl)
    THEN (JsonValid(dsl.v) /\ IsMap(JsonLoads(dsl.v)) /\ HasKey(JsonLoads(dsl.v), "expr"))
            => WellTypedNode(JsonLoads(dsl.v).v["expr"])
    ELSE IF IsMap(dsl)
    THEN (IF HasKey(dsl, "expr")
          THEN dsl.v["expr"].k = "obj" \/ WellTypedNode(dsl.v["expr"])
          ELSE WellTypedNode(dsl))
    ELSE TRUE

\* C1: for every guard input (shorthand string, document with or without expr, an
\* Op of any name with any number of arguments, any Ref path) and every target,
\* compile_guard returns text and never signals an error to its caller.
C1_NeverSignalsError ==
    (gPc = "done" /\ WellTypedGuard(gDoc)) => gOut.ok

\* an expr node of unrecognised shape: a non-shorthand string, a list, or a map
\* without lit / ref / op
UnrecognisedNode(n) ==
    \/ IsStr(n) /\ n.v \notin GuardShorthands
    \/ n.k = "list"
    \/ IsMap(n) /\ ~HasKey(n, "lit") /\ ~HasKey(n, "ref") /\ ~HasKey(n, "op")

\* a guard string that is neither a shorthand nor the JSON text of a map
UninterpretableString(dsl) ==
    /\ IsStr(dsl)
    /\ dsl.v \notin GuardShorthands
    /\ ~JsonValid(dsl.v) \/ ~IsMap(JsonLoads(dsl.v))

FalseOutcome == Ok(IF LowerAtom(gTarget) \in {"tsql", "sqlserver"} THEN <<"0">> ELSE <<"FALSE">>)

TrueOutcome == Ok(IF LowerAtom(gTarget) \in {"tsql", "sqlserver"} THEN <<"1">> ELSE <<"TRUE">>)

\* the guard document, read as a value: the map itself, or the map its JSON text holds
IsJsonMapText(dsl) == IsStr(dsl) /\ JsonValid(dsl.v) /\ IsMap(JsonLoads(dsl.v))

\* C4 as claimed: every map without an expr key, given as a map or as its JSON
\* string, compiles to exactly the true literal of the dialect.
C4_NoExprIsTrue ==
    gPc = "done" =>
        /\ (IsMap(gDoc) /\ ~HasKey(gDoc, "expr")) => gOut = TrueOutcome
        /\ (IsJsonMapText(gDoc) /\ gDoc.v \notin GuardShorthands
                /\ ~HasKey(JsonLoads(gDoc.v), "expr")) => gOut = TrueOutcome

\* C4 amended: a map with none of the keys expr, op, ref, lit, and the JSON string
\* of any map without an expr key, compile to exactly the true literal of the
\* dialect (1 for tsql/sqlserver, TRUE otherwise); a map without expr that holds
\* op, ref or lit is compiled as the expression node it is.
C4_DefaultAllow ==
    gPc = "done" =>
        /\ (IsMap(gDoc) /\ ~HasKey(gDoc, "expr") /\ ~HasKey(gDoc, "op")
                /\ ~HasKey(gDoc, "ref") /\ ~HasKey(gDoc, "lit")) => gOut = TrueOutcome
        /\ (IsJsonMapText(gDoc) /\ gDoc.v \notin GuardShorthands
                /\ ~HasKey(JsonLoads(gDoc.v), "expr")) => gOut = TrueOutcome
        /\ (gDoc = LitDoc(Bool(FALSE))) => gOut = FalseOutcome

C4_Witness ==
    /\ gPc = "done"
    /\ gDoc = EmptyMap
    /\ gTarget = "sqlserver"
    /\ gOut = Ok(<<"1">>)

\* the tenant-context expression of each dialect
TenantContextText ==
    CASE LowerAtom(gTarget) \in {"tsql", "sqlserver"} ->
            <<"SESSION_CONTEXT", "(", "N", SQ, "TenantId", SQ, ")">>
      [] LowerAtom(gTarget) = "postgres" ->
            <<"current_setting", "(", SQ, "app.tenant_id", SQ, ")">>
      [] LowerAtom(gTarget) = "snowflake" -> <<"CURRENT_SESSION()::VARIANT:tenant_id">>
      [] LowerAtom(gTarget) \in {"spark", "databricks"} -> <<"current_user()">>
      [] OTHER -> <<"@TenantId">>

\* C5: for every dialect, "allow" compiles as {"expr": true} does (the true
\* literal), "deny" as {"expr": false} does (the false literal), and "tenant"
\* compiles to (_TenantID = <tenant context>), which holds the tenant-context
\* expression of the dialect (SESSION_CONTEXT on tsql).
C5_ShorthandEquivalence ==
    gPc = "done" =>
        /\ gDoc = Word("allow") =>
                /\ gOut = compile_guard(gSelf, Map([expr |-> Bool(TRUE)]))
                /\ gOut = TrueOutcome
        /\ gDoc = Word("deny") =>
                /\ gOut = compile_guard(gSelf, Map([expr |-> Bool(FALSE)]))
                /\ gOut = FalseOutcome
        /\ gDoc = Word("tenant") =>
                /\ gOut = compile_guard(gSelf,
                            OpDoc(Word("eq"), <<RefDoc(<<"_TenantID">>),
                                                RefDoc(<<"context", DOT, "tenantId">>)>>))
                /\ gOut.ok
                /\ Contains(gOut.text, <<"_TenantID">>)
                /\ Contains(gOut.text, <<" ", "=", " ">> \o TenantContextText)

C5_Witness ==
    /\ gPc = "done"
    /\ gDoc = Word("tenant")
    /\ gTarget = "tsql"
    /\ Contains(gOut.text, <<"SESSION_CONTEXT">>)

(***************************************************************************)
(* Metric formulas: expression tree and parser (compiler/metrics/parser.py)*)
(***************************************************************************)
AggFunc ==
    <<"SUM", "COUNT", "AVG", "MIN", "MAX", "DISTINCTCOUNT", "COUNTROWS", "FIRST",
      "LAST", "STDEV", "VAR", "MEDIAN">>

TimeIntelFunc ==
    <<"YTD", "MTD", "QTD", "PY", "PM", "PQ", "SAMEPERIODLASTYEAR", "PARALLELPERIOD",
      "DATEADD", "DATESYTD", "DATESMTD", "DATESQTD", "PREVIOUSDAY", "PREVIOUSMONTH",
      "PREVIOUSQUARTER", "PREVIOUSYEAR">>

ArithOp == {"+", "-", "*", "/", "%"}

Range(f) == {f[i] : i \in DOMAIN f}

\* an absent optional child (Python None in a field that holds an expression)
NoExpr == [t |-> "None"]

FieldRef(table, field, alias) ==
    [t |-> "FieldRef", table |-> table, field |-> field, alias |-> alias]
MetricRef(metricCode) == [t |-> "MetricRef", metricCode |-> metricCode]
MetricLiteral(value, type) == [t |-> "Literal", value |-> value, type |-> type]
AggExpr(func, arg, filter) == [t |-> "AggExpr", func |-> func, arg |-> arg, filter |-> filter]
TimeIntelExpr(func, metric, dateColumn, offset) ==
    [t |-> "TimeIntelExpr", func |-> func, metric |-> metric,
     dateColumn |-> dateColumn, offset |-> offset]
ArithExpr(op, left, right) == [t |-> "ArithExpr", op |-> op, left |-> left, right |-> right]
CondExpr(condition, thenExpr, elseExpr) ==
    [t |-> "CondExpr", condition |-> condition, thenExpr |-> thenExpr,
     elseExpr |-> elseExpr]
CompareExpr(op, left, right) ==
    [t |-> "CompareExpr", op |-> op, left |-> left, right |-> right]
CoalesceExpr(args) == [t |-> "CoalesceExpr", args |-> args]
DivideExpr(numerator, denominator, alternateResult) ==
    [t |-> "DivideExpr", numerator |-> numerator, denominator |-> denominator,
     alternateResult |-> alternateResult]
WindowExpr(func, metric, partitionBy, orderBy) ==
    [t |-> "WindowExpr", func |-> func, metric |-> metric,
     partitionBy |-> partitionBy, orderBy |-> orderBy]

IsRaise(e) == e.t = "Raise"

\* the first exception among parse results es (in evaluation order), else node
FirstRaiseOr(es, node) ==
    IF \E i \in 1..Len(es) : IsRaise(es[i])
    THEN es[CHOOSE i \in 1..Len(es) : IsRaise(es[i]) /\ \A m \in 1..(i-1) : ~IsRaise(es[m])]
    ELSE node

\* the items a for-loop over a value visits; iterating a str gives its
\* characters, a dict its keys
Iterable(j) == j.k \in {"list", "str", "map"}
Items(j) ==
    CASE j.k = "list" -> j.v
      [] j.k = "str"  -> [i \in 1..Len(j.v) |-> Word(j.v[i])]
      [] j.k = "map"  -> [i \in 1..Len(KeysOf(j.v)) |-> Word(KeysOf(j.v)[i])]
      [] OTHER -> <<>>

\* value[i] for a 0-based index i: the item, or the exception the subscript raises
Thrown(e) == [k |-> "raise", v |-> e]
Subscript(j, i) ==
    CASE j.k \in {"list", "str"} ->
            IF i < Len(Items(j)) THEN Items(j)[i + 1] ELSE Thrown("IndexError")
      [] j.k = "map" -> Thrown("KeyError")
      [] OTHER -> Thrown("TypeError")

\* s.strip(): whitespace off both ends
RECURSIVE StripSpace(_)
StripSpace(s) ==
    IF s = <<>> THEN s
    ELSE IF Head(s) = " " THEN StripSpace(Tail(s))
    ELSE IF s[Len(s)] = " " THEN StripSpace(SubSeq(s, 1, Len(s)-1))
    ELSE s

DigitAtoms == {"0", "1", "2", "3", "5", "14", "42", "100"}

\* variant of DigitsOnly: every dotted token counts as a table.field
DigitsOnly_unchecked(s) == FALSE

\* s.replace(dot, empty).replace(underscore, empty).isdigit()
DigitsOnly(s) ==
    LET rest == SelectSeq(s, LAMBDA a : a \notin {DOT, "_"})
    IN  rest # <<>> /\ \A i \in 1..Len(rest) : rest[i] \in DigitAtoms

\* the value int(a) of a digit atom
IntOf(a) ==
    CASE a = "0" -> 0 [] a = "1" -> 1 [] a = "2" -> 2 [] a = "3" -> 3 [] a = "5" -> 5
      [] a = "14" -> 14 [] a = "42" -> 42 [] a = "100" -> 100

\* parse_field_ref called with a dict
parse_field_ref_map(node) ==
    IF HasKey(node, "ref") THEN
        IF ~IsStr(node.v["ref"]) THEN [t |-> "Raise", err |-> "AttributeError"]  \* no split
        ELSE LET r == node.v["ref"].v
                 hasDot == \E i \in 1..Len(r) : r[i] = DOT
                 i == CHOOSE j \in 1..Len(r) : r[j] = DOT /\ \A m \in 1..(j-1) : r[m] # DOT
             IN  IF hasDot
                 THEN FieldRef(Str(SubSeq(r, 1, i-1)), Str(SubSeq(r, i+1, Len(r))),
                               Get(node, "alias", None))
                 ELSE FieldRef(Str(<<>>), Str(r), Get(node, "alias", None))
    ELSE FieldRef(Get(node, "table", Str(<<>>)), Get(node, "field", Str(<<>>)),
                  Get(node, "alias", None))

\* parse_field_ref: the membership test and .get on whatever value arrives
parse_field_ref(node) ==
    CASE node.k = "map" -> parse_field_ref_map(node)
      [] node.k = "str" ->
            \* substring test, then str[...] or str.get
            IF Contains(node.v, <<"ref">>) THEN [t |-> "Raise", err |-> "TypeError"]
            ELSE [t |-> "Raise", err |-> "AttributeError"]
      [] node.k = "list" ->
            IF \E i \in 1..Len(node.v) : node.v[i] = Word("ref")
            THEN [t |-> "Raise", err |-> "TypeError"]
            ELSE [t |-> "Raise", err |-> "AttributeError"]
      [] OTHER -> [t |-> "Raise", err |-> "TypeError"]      \* not iterable

RECURSIVE parse_string_formula(_)
parse_string_formula(s0) ==
    LET s == StripSpace(s0)
        aggs == SelectSeq(AggFunc, LAMBDA f :
                    StartsWith(Upper(s), <<f, "(">>) /\ s # <<>> /\ s[Len(s)] = ")")
        hasDot == \E i \in 1..Len(s) : s[i] = DOT
        i == CHOOSE j \in 1..Len(s) : s[j] = DOT /\ \A m \in 1..(j-1) : s[m] # DOT
    IN  IF s # <<>> /\ Head(s) = "[" /\ s[Len(s)] = "]"
        THEN MetricRef(Str(SubSeq(s, 2, Len(s) - 1)))
        ELSE IF aggs # <<>>
        THEN AggExpr(aggs[1], parse_string_formula(SubSeq(s, 3, Len(s) - 1)), NoExpr)
        ELSE IF hasDot /\ ~DigitsOnly(s)
        THEN FieldRef(Str(SubSeq(s, 1, i-1)), Str(SubSeq(s, i+1, Len(s))), None)
        \* float(s) reads digits.digits, int(s) a run of digits
        ELSE IF hasDot /\ Len(s) = 3 /\ s[1] \in DigitAtoms /\ s[3] \in DigitAtoms
        THEN MetricLiteral(Float(s), Word("float"))
        ELSE IF Len(s) = 1 /\ s[1] \in DigitAtoms
        THEN MetricLiteral(Num(IntOf(s[1])), Word("int"))
        ELSE MetricLiteral(Str(s), Word("string"))

ParseError(e) == [t |-> "Raise", err |-> e]

RECURSIVE parse_metric_formula(_)

\* the operand of an arithmetic / comparison node: node.get(key, node.get("args",
\* default)[i]); the default is evaluated, and may raise, even when key is present
Operand(node, key, i, default) ==
    LET fromArgs == Subscript(Get(node, "args", default), i)
    IN  IF fromArgs.k = "raise" THEN ParseError(fromArgs.v)
        ELSE parse_metric_formula(Get(node, key, fromArgs))

parse_agg_expr(node) ==
    IF ~IsStr(node.v["agg"]) THEN ParseError("AttributeError")        \* no upper
    ELSE LET func_str == Upper(node.v["agg"].v)
             func == IF Len(func_str) = 1 /\ func_str[1] \in Range(AggFunc)
                     THEN func_str[1] ELSE "SUM"
             arg == parse_metric_formula(Get(node, "arg", Get(node, "field", EmptyMap)))
             filter_expr == IF HasKey(node, "filter")
                            THEN parse_metric_formula(node.v["filter"]) ELSE NoExpr
         IN  IF IsRaise(arg) THEN arg
             ELSE FirstRaiseOr(<<filter_expr>>, AggExpr(func, arg, filter_expr))

parse_time_intel_expr(node) ==
    IF ~IsStr(node.v["timeIntel"]) THEN ParseError("AttributeError")  \* no upper
    ELSE LET func_str == Upper(node.v["timeIntel"].v)
             func == IF Len(func_str) = 1 /\ func_str[1] \in Range(TimeIntelFunc)
                     THEN func_str[1] ELSE "YTD"
             metric == parse_metric_formula(
                            Get(node, "metric", Get(node, "arg", EmptyMap)))
             date_col == parse_field_ref(
                            Get(node, "dateColumn", Get(node, "date", EmptyMap)))
         IN  IF IsRaise(metric) THEN metric
             ELSE FirstRaiseOr(<<date_col>>,
                    TimeIntelExpr(func, metric, date_col, Get(node, "offset", None)))

parse_arith_expr(node) ==
    LET op_str == node.v["op"]
        op == IF IsStr(op_str) /\ Len(op_str.v) = 1 /\ op_str.v[1] \in ArithOp
              THEN op_str.v[1] ELSE "+"
        left == Operand(node, "left", 0, List(<<EmptyMap>>))
        right == Operand(node, "right", 1, List(<<None, EmptyMap>>))
    IN  IF IsRaise(left) THEN left
        ELSE FirstRaiseOr(<<right>>, ArithExpr(op, left, right))

parse_compare_expr(node) ==
    LET op0 == node.v["op"].v
        op == IF op0 = <<"==">> THEN <<"=">> ELSE IF op0 = <<"!=">> THEN <<"<>">> ELSE op0
        left == Operand(node, "left", 0, List(<<EmptyMap>>))
        right == Operand(node, "right", 1, List(<<None, EmptyMap>>))
    IN  IF IsRaise(left) THEN left
        ELSE FirstRaiseOr(<<right>>, CompareExpr(op, left, right))

parse_cond_expr(node) ==
    LET cond == parse_metric_formula(node.v["if"])
        then_expr == parse_metric_formula(Get(node, "then", EmptyMap))
        else_expr == IF HasKey(node, "else")
                     THEN parse_metric_formula(node.v["else"]) ELSE NoExpr
    IN  IF IsRaise(cond) THEN cond
        ELSE IF IsRaise(then_expr) THEN then_expr
        ELSE FirstRaiseOr(<<else_expr>>, CondExpr(cond, then_expr, else_expr))

parse_divide_expr(node) ==
    LET div == node.v["divide"]
        asList == div.k = "list" /\ Len(div.v) >= 2
        num == IF asList THEN parse_metric_formula(div.v[1])
               ELSE parse_metric_formula(Get(node, "numerator", EmptyMap))
        den == IF asList THEN parse_metric_formula(div.v[2])
               ELSE parse_metric_formula(Get(node, "denominator", EmptyMap))
        alt == IF asList
               THEN (IF Len(div.v) > 2 THEN parse_metric_formula(div.v[3]) ELSE NoExpr)
               ELSE (IF HasKey(node, "alternate")
                     THEN parse_metric_formula(node.v["alternate"]) ELSE NoExpr)
    IN  IF IsRaise(num) THEN num
        ELSE IF IsRaise(den) THEN den
        ELSE FirstRaiseOr(<<alt>>, DivideExpr(num, den, alt))

\* [parse_field_ref(f) for f in node[key]], or None when the key is absent
FieldRefList(node, key) ==
    IF ~HasKey(node, key) THEN [t |-> "None"]
    ELSE IF ~Iterable(node.v[key]) THEN ParseError("TypeError")
    ELSE LET fs == [i \in 1..Len(Items(node.v[key])) |->
                        parse_field_ref(Items(node.v[key])[i])]
         IN  FirstRaiseOr(fs, [t |-> "List", items |-> fs])

parse_window_expr(node) ==
    IF ~IsStr(node.v["window"]) THEN ParseError("AttributeError")     \* no upper
    ELSE LET func == Upper(node.v["window"].v)
             metric == parse_metric_formula(
                            Get(node, "metric", Get(node, "arg", EmptyMap)))
             partition_by == FieldRefList(node, "partitionBy")
             order_by == FieldRefList(node, "orderBy")
         IN  IF IsRaise(metric) THEN metric
             ELSE IF IsRaise(partition_by) THEN partition_by
             ELSE FirstRaiseOr(<<order_by>>,
                    WindowExpr(func, metric, partition_by, order_by))

\* variant of Discriminator: the simple references are looked for first
Discriminator_reference_first(node) ==
    CASE HasKey(node, "metric") /\ IsStr(node.v["metric"]) -> "metric"
      [] HasKey(node, "ref") \/ (HasKey(node, "table") /\ HasKey(node, "field")) -> "ref"
      [] HasKey(node, "lit") -> "lit"
      [] HasKey(node, "timeIntel") -> "timeIntel"
      [] HasKey(node, "agg") -> "agg"
      [] HasKey(node, "op") /\ IsStr(node.v["op"]) /\ Len(node.v["op"].v) = 1
            /\ node.v["op"].v[1] \in ArithOp -> "arith"
      [] HasKey(node, "op") /\ IsStr(node.v["op"]) /\ Len(node.v["op"].v) = 1
            /\ node.v["op"].v[1] \in {"=", "<>", ">", "<", ">=", "<=", "==", "!="}
            -> "compare"
      [] HasKey(node, "if") -> "if"
      [] HasKey(node, "coalesce") -> "coalesce"
      [] HasKey(node, "divide") -> "divide"
      [] HasKey(node, "window") -> "window"
      [] OTHER -> ""

\* the first discriminating key that decides a map's node kind, in the order
\* parse_metric_formula tests them ("" when none does)
Discriminator(node) ==
    CASE HasKey(node, "lit") -> "lit"
      [] HasKey(node, "timeIntel") -> "timeIntel"
      [] HasKey(node, "agg") -> "agg"
      [] HasKey(node, "metric") /\ IsStr(node.v["metric"]) -> "metric"
      [] HasKey(node, "ref") \/ (HasKey(node, "table") /\ HasKey(node, "field")) -> "ref"
      [] HasKey(node, "op") /\ IsStr(node.v["op"]) /\ Len(node.v["op"].v) = 1
            /\ node.v["op"].v[1] \in ArithOp -> "arith"
      [] HasKey(node, "op") /\ IsStr(node.v["op"]) /\ Len(node.v["op"].v) = 1
            /\ node.v["op"].v[1] \in {"=", "<>", ">", "<", ">=", "<=", "==", "!="}
            -> "compare"
      [] HasKey(node, "if") -> "if"
      [] HasKey(node, "coalesce") -> "coalesce"
      [] HasKey(node, "divide") -> "divide"
      [] HasKey(node, "window") -> "window"
      [] OTHER -> ""

parse_metric_formula(node) ==
    CASE node.k = "str" -> parse_string_formula(node.v)
      [] node.k = "num" -> MetricLiteral(node, Word("int"))
      [] node.k = "float" -> MetricLiteral(node, Word("float"))
      [] node.k = "bool" -> MetricLiteral(node, Word("bool"))
      [] node.k # "map" -> MetricLiteral(node, None)
      [] OTHER ->
        LET d == Discriminator(node)
        IN  CASE d = "lit" -> MetricLiteral(node.v["lit"], Get(node, "type", None))
              [] d = "timeIntel" -> parse_time_intel_expr(node)
              [] d = "agg" -> parse_agg_expr(node)
              [] d = "metric" -> MetricRef(node.v["metric"])
              [] d = "ref" -> parse_field_ref(node)
              [] d = "arith" -> parse_arith_expr(node)
              [] d = "compare" -> parse_compare_expr(node)
              [] d = "if" -> parse_cond_expr(node)
              [] d = "coalesce" ->
                    IF ~Iterable(node.v["coalesce"]) THEN ParseError("TypeError")
                    ELSE LET args == [i \in 1..Len(Items(node.v["coalesce"])) |->
                                parse_metric_formula(Items(node.v["coalesce"])[i])]
                         IN  FirstRaiseOr(args, CoalesceExpr(args))
              [] d = "divide" -> parse_divide_expr(node)
              [] d = "window" -> parse_window_expr(node)
              [] OTHER -> MetricLiteral(node, None)

(***************************************************************************)
(* Metrics compiler  (compiler/metrics/compiler.py)                        *)
(***************************************************************************)
IsDax(self) == self.target \in {"dax", "powerbi"}
IsSparkSql(self) == self.target \in {"spark", "databricks", "sparksql"}

NoCache == [x \in {} |-> <<>>]

MetricProfile(target, q, qEnd, sq, nsd) ==
    [target |-> target, quote_char |-> q, quote_end |-> qEnd, string_quote |-> sq,
     null_safe_divide |-> nsd, metrics_cache |-> NoCache]

\* MetricsCompiler.__init__ with _setup_dialect: the instance for a target name;
\* quote_char is a text, empty for python
MetricsCompiler(target) ==
    LET t == LowerAtom(target)
    IN  CASE t \in {"tsql", "sqlserver"} -> MetricProfile(t, <<"[">>, <<"]">>, SQ, TRUE)
          [] t \in {"dax", "powerbi"} -> MetricProfile(t, <<SQ>>, <<SQ>>, DQ, TRUE)
          [] t \in {"spark", "databricks", "sparksql"} ->
                MetricProfile(t, <<BT>>, <<BT>>, SQ, FALSE)
          [] t \in {"postgres", "redshift"} -> MetricProfile(t, <<DQ>>, <<DQ>>, SQ, FALSE)
          [] t = "python" -> MetricProfile(t, <<>>, <<>>, DQ, TRUE)
          [] OTHER -> MetricProfile(t, <<DQ>>, <<DQ>>, SQ, FALSE)

metric_quote_identifier(self, name) == self.quote_char \o name \o self.quote_end

quote_field(self, table, field) ==
    IF IsDax(self) THEN PyStr(table) \o <<"[">> \o PyStr(field) \o <<"]">>
    ELSE IF Truthy(table)
    THEN metric_quote_identifier(self, PyStr(table)) \o <<DOT>>
            \o metric_quote_identifier(self, PyStr(field))
    ELSE metric_quote_identifier(self, PyStr(field))

metric_compile_literal(self, lit) ==
    CASE lit.value.k = "null" ->
            IF self.target # "python" THEN <<"NULL">> ELSE <<"None">>
      [] lit.value.k = "bool" ->
            IF self.target = "python"
            THEN (IF lit.value.v THEN <<"True">> ELSE <<"False">>)
            ELSE IF IsDax(self)
            THEN (IF lit.value.v THEN <<"TRUE">> ELSE <<"FALSE">>)
            ELSE (IF lit.value.v THEN <<"1">> ELSE <<"0">>)
      [] lit.value.k \in {"num", "float"} -> PyStr(lit.value)
      [] lit.value.k = "str" ->
            <<self.string_quote>> \o Replace2(lit.value.v, self.string_quote)
                \o <<self.string_quote>>
      [] OTHER -> PyStr(lit.value)

compile_field_ref(self, ref) == quote_field(self, ref.table, ref.field)

\* variant of _compile_metric_ref that never consults the cache
compile_metric_ref_placeholder(self, ref) ==
    LET metric_code == PyStr(ref.metricCode)
    IN  IF IsDax(self) THEN <<"[">> \o metric_code \o <<"]">>
        ELSE <<"/*", " ">> \o metric_code \o <<" ", "*/">>

compile_metric_ref(self, ref) ==
    LET metric_code == PyStr(ref.metricCode)
    IN  IF metric_code \in DOMAIN self.metrics_cache
        THEN <<"(">> \o self.metrics_cache[metric_code] \o <<")">>
        ELSE IF IsDax(self) THEN <<"[">> \o metric_code \o <<"]">>
        ELSE <<"/*", " ">> \o metric_code \o <<" ", "*/">>

RECURSIVE metric_compile(_, _)

compile_agg_sql(self, agg, inner) ==
    LET func == CASE agg.func = "FIRST" -> "MIN"
                  [] agg.func = "LAST" -> "MAX"
                  [] OTHER -> agg.func
    IN  CASE agg.func = "DISTINCTCOUNT" ->
                <<"COUNT", "(", "DISTINCT", " ">> \o inner \o <<")">>
          [] agg.func = "COUNTROWS" -> <<"COUNT", "(", "*", ")">>
          [] agg.func = "MEDIAN" ->
                <<"PERCENTILE_CONT(0.5)", " ", "WITHIN", " ", "GROUP", " ", "(",
                  "ORDER", " ", "BY", " ">> \o inner \o <<")">>
          [] OTHER ->
                IF agg.filter.t # "None"
                THEN <<"SUM", "(", "CASE", " ", "WHEN", " ">>
                        \o metric_compile(self, agg.filter)
                        \o <<" ", "THEN", " ">> \o inner
                        \o <<" ", "ELSE", " ", "0", " ", "END", ")">>
                ELSE <<func, "(">> \o inner \o <<")">>

compile_agg_dax(self, agg, inner) ==
    LET func == CASE agg.func = "AVG" -> "AVERAGE"
                  [] agg.func = "FIRST" -> "FIRSTNONBLANK"
                  [] agg.func = "LAST" -> "LASTNONBLANK"
                  [] agg.func = "STDEV" -> "STDEV.P"
                  [] agg.func = "VAR" -> "VAR.P"
                  [] OTHER -> agg.func
        result == <<func, "(">> \o inner \o <<")">>
    IN  IF agg.func = "COUNTROWS"
        THEN (IF agg.arg.t = "FieldRef"
              THEN <<"COUNTROWS", "(">> \o PyStr(agg.arg.table) \o <<")">>
              ELSE <<"COUNTROWS", "(">> \o inner \o <<")">>)
        ELSE IF agg.filter.t # "None"
        THEN <<"CALCULATE", "(">> \o result \o <<",", " ">>
                \o metric_compile(self, agg.filter) \o <<")">>
        ELSE result

compile_agg_spark(self, agg, inner) ==
    LET func == CASE agg.func = "STDEV" -> "STDDEV"
                  [] agg.func = "VAR" -> "VARIANCE"
                  [] OTHER -> agg.func
    IN  CASE agg.func = "DISTINCTCOUNT" ->
                <<"COUNT", "(", "DISTINCT", " ">> \o inner \o <<")">>
          [] agg.func = "COUNTROWS" -> <<"COUNT", "(", "*", ")">>
          [] agg.func = "MEDIAN" ->
                <<"PERCENTILE", "(">> \o inner \o <<",", " ", "0.5", ")">>
          [] OTHER ->
                IF agg.filter.t # "None"
                THEN <<"SUM", "(", "CASE", " ", "WHEN", " ">>
                        \o metric_compile(self, agg.filter)
                        \o <<" ", "THEN", " ">> \o inner
                        \o <<" ", "ELSE", " ", "0", " ", "END", ")">>
                ELSE <<func, "(">> \o inner \o <<")">>

compile_agg_python(self, agg, inner) ==
    LET func == CASE agg.func = "SUM" -> "sum"
                  [] agg.func = "COUNT" -> "count"
                  [] agg.func = "AVG" -> "mean"
                  [] agg.func = "MIN" -> "min"
                  [] agg.func = "MAX" -> "max"
                  [] agg.func = "DISTINCTCOUNT" -> "nunique"
                  [] agg.func = "COUNTROWS" -> "len"
                  [] agg.func = "FIRST" -> "first"
                  [] agg.func = "LAST" -> "last"
                  [] agg.func = "STDEV" -> "std"
                  [] agg.func = "VAR" -> "var"
                  [] agg.func = "MEDIAN" -> "median"
    IN  IF agg.func = "COUNTROWS" THEN <<"len", "(", "df", ")">>
        ELSE IF agg.filter.t # "None"
        THEN <<"df", DOT, "loc", "[">> \o metric_compile(self, agg.filter)
                \o <<",", " ">> \o inner \o <<"]", DOT, func, "(", ")">>
        ELSE <<"df", "[">> \o inner \o <<"]", DOT, func, "(", ")">>

compile_agg(self, agg) ==
    LET inner == metric_compile(self, agg.arg)
    IN  CASE IsDax(self) -> compile_agg_dax(self, agg, inner)
          [] IsSparkSql(self) -> compile_agg_spark(self, agg, inner)
          [] self.target = "python" -> compile_agg_python(self, agg, inner)
          [] OTHER -> compile_agg_sql(self, agg, inner)

\* CALCULATE(metric, FN(date_col))
DaxCalculate(metric, inner) == <<"CALCULATE", "(">> \o metric \o <<",", " ">> \o inner \o <<")">>

\* f"{ti.offset or -1}"
OffsetText(ti) == IF Truthy(ti.offset) THEN PyStr(ti.offset) ELSE <<"-1">>

compile_time_intel_dax(self, ti) ==
    LET metric == metric_compile(self, ti.metric)
        date_col == metric_compile(self, ti.dateColumn)
        Total(fn) == <<fn, "(">> \o metric \o <<",", " ">> \o date_col \o <<")">>
        Over(fn) == DaxCalculate(metric, <<fn, "(">> \o date_col \o <<")">>)
    IN  CASE ti.func = "YTD" -> Total("TOTALYTD")
          [] ti.func = "MTD" -> Total("TOTALMTD")
          [] ti.func = "QTD" -> Total("TOTALQTD")
          [] ti.func = "PY" -> Over("SAMEPERIODLASTYEAR")
          [] ti.func = "PM" -> Over("PREVIOUSMONTH")
          [] ti.func = "PQ" -> Over("PREVIOUSQUARTER")
          [] ti.func = "SAMEPERIODLASTYEAR" -> Over("SAMEPERIODLASTYEAR")
          [] ti.func = "PARALLELPERIOD" ->
                DaxCalculate(metric, <<"PARALLELPERIOD", "(">> \o date_col \o <<",", " ">>
                                \o OffsetText(ti) \o <<",", " ", "MONTH", ")">>)
          [] ti.func = "DATEADD" ->
                DaxCalculate(metric, <<"DATEADD", "(">> \o date_col \o <<",", " ">>
                                \o OffsetText(ti) \o <<",", " ", "DAY", ")">>)
          [] ti.func = "DATESYTD" -> Over("DATESYTD")
          [] ti.func = "PREVIOUSDAY" -> Over("PREVIOUSDAY")
          [] ti.func = "PREVIOUSMONTH" -> Over("PREVIOUSMONTH")
          [] ti.func = "PREVIOUSQUARTER" -> Over("PREVIOUSQUARTER")
          [] ti.func = "PREVIOUSYEAR" -> Over("PREVIOUSYEAR")
          [] OTHER -> DaxCalculate(metric, date_col)

\* SUM(CASE WHEN <cond> THEN metric ELSE 0 END)
SumCaseWhen(cond, metric) ==
    <<"SUM", "(", "CASE", " ", "WHEN", " ">> \o cond \o <<" ", "THEN", " ">> \o metric
        \o <<" ", "ELSE", " ", "0", " ", "END", ")">>

LineBreak == <<"\n", "                ">>

compile_time_intel_sql(self, ti) ==
    LET metric == metric_compile(self, ti.metric)
        date_col == metric_compile(self, ti.dateColumn)
        toDate == LineBreak \o <<"AND", " ">> \o date_col \o <<" ", "<=", " ", "GETDATE()">>
    IN  CASE ti.func = "YTD" ->
                SumCaseWhen(date_col \o <<" ", ">=", " ", "DATEFROMPARTS", "(", "YEAR", "(">>
                    \o date_col \o <<")", ",", " ", "1", ",", " ", "1", ")">> \o toDate,
                    metric)
          [] ti.func = "MTD" ->
                SumCaseWhen(date_col \o <<" ", ">=", " ", "DATEFROMPARTS", "(", "YEAR", "(">>
                    \o date_col \o <<")", ",", " ", "MONTH", "(">> \o date_col
                    \o <<")", ",", " ", "1", ")">> \o toDate, metric)
          [] ti.func = "QTD" ->
                SumCaseWhen(date_col \o <<" ", ">=", " ", "DATEADD", "(", "QUARTER", ",",
                        " ", "DATEDIFF", "(", "QUARTER", ",", " ", "0", ",", " ">>
                    \o date_col \o <<")", ",", " ", "0", ")">> \o toDate, metric)
          [] ti.func = "PY" ->
                SumCaseWhen(<<"YEAR", "(">> \o date_col
                    \o <<")", " ", "=", " ", "YEAR(GETDATE())", " ", "-", " ", "1">>, metric)
          [] ti.func = "PM" ->
                SumCaseWhen(<<"YEAR", "(">> \o date_col
                    \o <<")", " ", "=", " ", "YEAR(DATEADD(MONTH, -1, GETDATE()))">>
                    \o LineBreak \o <<"AND", " ", "MONTH", "(">> \o date_col
                    \o <<")", " ", "=", " ", "MONTH(DATEADD(MONTH, -1, GETDATE()))">>,
                    metric)
          [] OTHER -> metric

compile_time_intel_spark(self, ti) ==
    LET metric == metric_compile(self, ti.metric)
        date_col == metric_compile(self, ti.dateColumn)
        toDate == LineBreak \o <<"AND", " ">> \o date_col
                    \o <<" ", "<=", " ", "CURRENT_DATE()">>
    IN  CASE ti.func = "YTD" ->
                SumCaseWhen(date_col \o <<" ", ">=", " ", "DATE_TRUNC", "(", SQ, "YEAR", SQ,
                        ",", " ", "CURRENT_DATE()", ")">> \o toDate, metric)
          [] ti.func = "MTD" ->
                SumCaseWhen(date_col \o <<" ", ">=", " ", "DATE_TRUNC", "(", SQ, "MONTH", SQ,
                        ",", " ", "CURRENT_DATE()", ")">> \o toDate, metric)
          [] ti.func = "PY" ->
                SumCaseWhen(<<"YEAR", "(">> \o date_col
                    \o <<")", " ", "=", " ", "YEAR(CURRENT_DATE())", " ", "-", " ", "1">>,
                    metric)
          [] OTHER -> metric

\* a TimeIntelExpr built by hand may hold its inner metric as a raw dict
RawDict(doc) == [t |-> "Dict", doc |-> doc]

\* the node _compile_time_intel goes on with: a raw dict metric is parsed into a
\* new TimeIntelExpr bound to the local name
time_intel_local(ti) ==
    IF ti.metric.t = "Dict"
    THEN TimeIntelExpr(ti.func, parse_metric_formula(ti.metric.doc), ti.dateColumn,
                       ti.offset)
    ELSE ti

compile_time_intel(self, ti0) ==
    LET ti == time_intel_local(ti0)
    IN  CASE IsDax(self) -> compile_time_intel_dax(self, ti)
          [] IsSparkSql(self) -> compile_time_intel_spark(self, ti)
          [] OTHER -> compile_time_intel_sql(self, ti)

compile_arith(self, arith) ==
    <<"(">> \o metric_compile(self, arith.left) \o <<" ", arith.op, " ">>
        \o metric_compile(self, arith.right) \o <<")">>

compile_cond(self, cond) ==
    LET condition == metric_compile(self, cond.condition)
        then_expr == metric_compile(self, cond.thenExpr)
        hasElse == cond.elseExpr.t # "None"
        else_expr == metric_compile(self, cond.elseExpr)
    IN  IF IsDax(self) THEN
            <<"IF", "(">> \o condition \o <<",", " ">> \o then_expr
                \o (IF hasElse THEN <<",", " ">> \o else_expr ELSE <<>>) \o <<")">>
        ELSE IF self.target = "python" THEN
            <<"(">> \o then_expr \o <<" ", "if", " ">> \o condition \o <<" ", "else", " ">>
                \o (IF hasElse THEN else_expr ELSE <<"None">>) \o <<")">>
        ELSE <<"CASE", " ", "WHEN", " ">> \o condition \o <<" ", "THEN", " ">> \o then_expr
                \o (IF hasElse THEN <<" ", "ELSE", " ">> \o else_expr ELSE <<>>)
                \o <<" ", "END">>

compile_compare(self, comp) ==
    <<"(">> \o metric_compile(self, comp.left) \o <<" ">> \o comp.op \o <<" ">>
        \o metric_compile(self, comp.right) \o <<")">>

compile_coalesce(self, coal) ==
    LET args == Join([i \in 1..Len(coal.args) |-> metric_compile(self, coal.args[i])],
                     <<",", " ">>)
    IN  IF self.target = "python"
        THEN <<"next((x for x in [">> \o args \o <<"] if x is not None), None)">>
        ELSE <<"COALESCE", "(">> \o args \o <<")">>

\* variant of _compile_divide that divides unguarded where the dialect is not
\* flagged null_safe_divide
compile_divide_unflagged(self, div) ==
    LET num == metric_compile(self, div.numerator)
        den == metric_compile(self, div.denominator)
        alt == IF div.alternateResult.t # "None"
               THEN metric_compile(self, div.alternateResult) ELSE <<"0">>
    IN  IF IsDax(self)
        THEN <<"DIVIDE", "(">> \o num \o <<",", " ">> \o den \o <<",", " ">> \o alt \o <<")">>
        ELSE IF self.target = "python"
        THEN <<"(">> \o num \o <<" ", "/", " ">> \o den \o <<" ", "if", " ">> \o den
                \o <<" ", "!=", " ", "0", " ", "else", " ">> \o alt \o <<")">>
        ELSE IF self.null_safe_divide
        THEN <<"CASE", " ", "WHEN", " ">> \o den \o <<" ", "=", " ", "0", " ", "THEN", " ">>
                \o alt \o <<" ", "ELSE", " ">> \o num \o <<" ", "/", " ">> \o den
                \o <<" ", "END">>
        ELSE <<"(">> \o num \o <<" ", "/", " ">> \o den \o <<")">>

compile_divide(self, div) ==
    LET num == metric_compile(self, div.numerator)
        den == metric_compile(self, div.denominator)
        alt == IF div.alternateResult.t # "None"
               THEN metric_compile(self, div.alternateResult) ELSE <<"0">>
    IN  IF IsDax(self)
        THEN <<"DIVIDE", "(">> \o num \o <<",", " ">> \o den \o <<",", " ">> \o alt \o <<")">>
        ELSE IF self.target = "python"
        THEN <<"(">> \o num \o <<" ", "/", " ">> \o den \o <<" ", "if", " ">> \o den
                \o <<" ", "!=", " ", "0", " ", "else", " ">> \o alt \o <<")">>
        ELSE IF self.null_safe_divide
        THEN <<"CASE", " ", "WHEN", " ">> \o den \o <<" ", "=", " ", "0", " ", "THEN", " ">>
                \o alt \o <<" ", "ELSE", " ">> \o num \o <<" ", "/", " ">> \o den
                \o <<" ", "END">>
        ELSE <<"(">> \o num \o <<" ", "/", " ", "NULLIF", "(">> \o den
                \o <<",", " ", "0", ")", ")">>

\* ", ".join(self.compile(f) for f in fields)
CompileFields(self, fields) ==
    Join([i \in 1..Len(fields.items) |-> metric_compile(self, fields.items[i])],
         <<",", " ">>)

\* a non-empty field list (a None or empty list is falsy)
HasFields(fields) == fields.t = "List" /\ fields.items # <<>>

compile_window(self, win) ==
    LET metric == metric_compile(self, win.metric)
        partition == IF HasFields(win.partitionBy)
                     THEN <<<<"PARTITION", " ", "BY", " ">>
                                \o CompileFields(self, win.partitionBy)>>
                     ELSE <<>>
        order == IF HasFields(win.orderBy)
                 THEN <<<<"ORDER", " ", "BY", " ">> \o CompileFields(self, win.orderBy)>>
                 ELSE <<>>
        over_parts == partition \o order
    IN  IF IsDax(self) THEN metric
        ELSE win.func \o <<"(">> \o metric \o <<")", " ">>
                \o (IF over_parts # <<>>
                    THEN <<"OVER", " ", "(">> \o Join(over_parts, <<" ">>) \o <<")">>
                    ELSE <<"OVER", " ", "(", ")">>)

metric_compile(self, expr) ==
    CASE expr.t = "Literal" -> metric_compile_literal(self, expr)
      [] expr.t = "FieldRef" -> compile_field_ref(self, expr)
      [] expr.t = "MetricRef" -> compile_metric_ref(self, expr)
      [] expr.t = "AggExpr" -> compile_agg(self, expr)
      [] expr.t = "TimeIntelExpr" -> compile_time_intel(self, expr)
      [] expr.t = "ArithExpr" -> compile_arith(self, expr)
      [] expr.t = "CondExpr" -> compile_cond(self, expr)
      [] expr.t = "CompareExpr" -> compile_compare(self, expr)
      [] expr.t = "CoalesceExpr" -> compile_coalesce(self, expr)
      [] expr.t = "DivideExpr" -> compile_divide(self, expr)
      [] expr.t = "WindowExpr" -> compile_window(self, expr)
      [] OTHER -> <<"NULL">>

\* sorted(set of codes): codes are ordered by their position in CodeOrder
CodeOrder == <<"A", "B", "C", "D", "Margin", "TotalCost", "TotalSales", "Z">>

SortedCodes(codes) == SelectSeq([i \in 1..Len(CodeOrder) |-> <<CodeOrder[i]>>],
                                LAMBDA c : c \in codes)

\* the set _walk of _extract_dependencies collects
RECURSIVE walk(_)
\* variant of _walk that does not descend into aggregation filters
walk_skips_filter(e) ==
    CASE e.t = "MetricRef" -> {PyStr(e.metricCode)}
      [] e.t = "AggExpr" -> walk(e.arg)
      [] e.t = "TimeIntelExpr" -> walk(e.metric)
      [] e.t = "ArithExpr" -> walk(e.left) \cup walk(e.right)
      [] e.t = "CondExpr" ->
            walk(e.condition) \cup walk(e.thenExpr)
                \cup (IF e.elseExpr.t # "None" THEN walk(e.elseExpr) ELSE {})
      [] e.t = "CompareExpr" -> walk(e.left) \cup walk(e.right)
      [] e.t = "CoalesceExpr" -> UNION {walk(e.args[i]) : i \in 1..Len(e.args)}
      [] e.t = "DivideExpr" ->
            walk(e.numerator) \cup walk(e.denominator)
                \cup (IF e.alternateResult.t # "None" THEN walk(e.alternateResult) ELSE {})
      [] e.t = "WindowExpr" -> walk(e.metric)
      [] OTHER -> {}

walk(e) ==
    CASE e.t = "MetricRef" -> {PyStr(e.metricCode)}
      [] e.t = "AggExpr" ->
            walk(e.arg) \cup (IF e.filter.t # "None" THEN walk(e.filter) ELSE {})
      [] e.t = "TimeIntelExpr" -> walk(e.metric)
      [] e.t = "ArithExpr" -> walk(e.left) \cup walk(e.right)
      [] e.t = "CondExpr" ->
            walk(e.condition) \cup walk(e.thenExpr)
                \cup (IF e.elseExpr.t # "None" THEN walk(e.elseExpr) ELSE {})
      [] e.t = "CompareExpr" -> walk(e.left) \cup walk(e.right)
      [] e.t = "CoalesceExpr" -> UNION {walk(e.args[i]) : i \in 1..Len(e.args)}
      [] e.t = "DivideExpr" ->
            walk(e.numerator) \cup walk(e.denominator)
                \cup (IF e.alternateResult.t # "None" THEN walk(e.alternateResult) ELSE {})
      [] e.t = "WindowExpr" -> walk(e.metric)
      [] OTHER -> {}

extract_dependencies(expr) == SortedCodes(walk(expr))

\* a or b
PyOr(a, b) == IF Truthy(a) THEN a ELSE b

\* an exception leaving compile_metric
MetricRaise(e) ==
    [ok |-> FALSE, err |-> e, metricCode |-> None, target |-> "", expression |-> <<>>,
     dependencies |-> <<>>, notes |-> None]

\* CompiledMetric(metricCode, target, expression, dependencies, notes)
CompiledMetric(metricCode, target, expression, dependencies, notes) ==
    [ok |-> TRUE, err |-> "", metricCode |-> metricCode, target |-> target,
     expression |-> expression, dependencies |-> dependencies, notes |-> notes]

compile_metric(metric_def, target, metrics_lookup) ==
    LET code == PyOr(PyOr(Get(metric_def, "code", None),
                          Get(metric_def, "metricCode", None)),
                     Get(metric_def, "MT_Code", Word("Unknown")))
        formula == PyOr(PyOr(Get(metric_def, "formula", None),
                             Get(metric_def, "expressionLogical", None)),
                        Get(metric_def, "MT_FormulaJSON", EmptyMap))
        compiler == [MetricsCompiler(target) EXCEPT !.metrics_cache =
                        IF DOMAIN metrics_lookup # {} THEN metrics_lookup ELSE NoCache]
        expr == parse_metric_formula(formula)
    IN  IF IsRaise(expr) THEN MetricRaise(expr.err)
        ELSE CompiledMetric(code, target, metric_compile(compiler, expr),
                            extract_dependencies(expr), Get(metric_def, "notes", None))

NL == "\n"
Indent == "    "

\* direction.lower() in ("higherbetter", "higherisbetter", "maximize")
HigherIsBetter(direction) ==
    Lower(direction.v) \in {<<"higherbetter">>, <<"higherisbetter">>, <<"maximize">>}

kpi_status_dax(metric, direction, red, yellow, green) ==
    LET higher_is_better == HigherIsBetter(direction)
        ge == IF higher_is_better THEN ">=" ELSE "<="
        lt == IF higher_is_better THEN "<" ELSE ">"
    IN  IF red.k # "null" /\ yellow.k # "null" THEN
            <<NL, "SWITCH", "(", NL, Indent, "TRUE()", ",", NL, Indent>>
                \o metric \o <<" ", ge, " ">> \o PyStr(PyOr(green, yellow))
                \o <<",", " ", DQ, "Green", DQ, ",", NL, Indent>>
                \o metric \o <<" ", ge, " ">> \o PyStr(yellow)
                \o <<",", " ", DQ, "Yellow", DQ, ",", NL, Indent>>
                \o metric \o <<" ", lt, " ">> \o PyStr(red)
                \o <<",", " ", DQ, "Red", DQ, ",", NL, Indent, DQ, "Yellow", DQ, NL, ")">>
        ELSE IF red.k # "null" THEN
            <<"IF", "(">> \o metric \o <<" ", ge, " ">> \o PyStr(red)
                \o <<",", " ", DQ, "Green", DQ, ",", " ", DQ, "Red", DQ, ")">>
        ELSE <<DQ, "Unknown", DQ>>

kpi_status_sql(metric, direction, red, yellow, green) ==
    LET higher_is_better == HigherIsBetter(direction)
        ge == IF higher_is_better THEN ">=" ELSE "<="
        lt == IF higher_is_better THEN "<" ELSE ">"
    IN  IF red.k # "null" /\ yellow.k # "null" THEN
            <<"CASE", NL, Indent, "WHEN", " ">>
                \o metric \o <<" ", ge, " ">> \o PyStr(PyOr(green, yellow))
                \o <<" ", "THEN", " ", SQ, "Green", SQ, NL, Indent, "WHEN", " ">>
                \o metric \o <<" ", ge, " ">> \o PyStr(yellow)
                \o <<" ", "THEN", " ", SQ, "Yellow", SQ, NL, Indent, "WHEN", " ">>
                \o metric \o <<" ", lt, " ">> \o PyStr(red)
                \o <<" ", "THEN", " ", SQ, "Red", SQ, NL, Indent, "ELSE", " ",
                     SQ, "Yellow", SQ, NL, "END">>
        ELSE IF red.k # "null" THEN
            <<"CASE", " ", "WHEN", " ">> \o metric \o <<" ", ge, " ">> \o PyStr(red)
                \o <<" ", "THEN", " ", SQ, "Green", SQ, " ", "ELSE", " ", SQ, "Red", SQ,
                     " ", "END">>
        ELSE <<SQ, "Unknown", SQ>>

\* an exception leaving compile_kpi
KpiRaise(e) ==
    [ok |-> FALSE, err |-> e, keys |-> {}, kpiCode |-> None, metricCode |-> None,
     statusExpression |-> <<>>, varianceExpression |-> <<>>,
     variancePctExpression |-> <<>>]

\* the dict compile_kpi returns: keys names the entries it holds
KpiResult(code, metric_code, status, hasVariance, variance, variancePct) ==
    [ok |-> TRUE, err |-> "",
     keys |-> {"kpiCode", "metricCode", "statusExpression"}
                \cup (IF hasVariance THEN {"varianceExpression", "variancePctExpression"}
                      ELSE {}),
     kpiCode |-> code, metricCode |-> metric_code, statusExpression |-> status,
     varianceExpression |-> variance, variancePctExpression |-> variancePct]

compile_kpi(kpi_def, metrics, target) ==
    LET code == PyOr(PyOr(Get(kpi_def, "code", None), Get(kpi_def, "kpiCode", None)),
                     Get(kpi_def, "KPI_Code", Word("Unknown")))
        metric_code == PyOr(Get(kpi_def, "metricCode", None),
                            Get(kpi_def, "KPI_MetricCode", Str(<<>>)))
        direction == PyOr(Get(kpi_def, "direction", None),
                          Get(kpi_def, "KPI_Direction", Word("HigherIsBetter")))
        thresholds0 == PyOr(Get(kpi_def, "thresholds", None),
                            Get(kpi_def, "KPI_ThresholdsJSON", EmptyMap))
        target_value == PyOr(Get(kpi_def, "targetValue", None),
                             Get(kpi_def, "KPI_TargetValue", None))
        known == IsStr(metric_code) /\ metric_code.v \in DOMAIN metrics
        metric_expr == IF known
                       THEN <<"(">> \o metrics[metric_code.v].expression \o <<")">>
                       ELSE <<"[">> \o PyStr(metric_code) \o <<"]">>
        thresholds == IF IsStr(thresholds0)
                      THEN (IF JsonValid(thresholds0.v) THEN JsonLoads(thresholds0.v)
                            ELSE EmptyMap)
                      ELSE thresholds0
        red == PyOr(Get(thresholds, "red", None), Get(thresholds, "critical", None))
        yellow == PyOr(Get(thresholds, "yellow", None), Get(thresholds, "warning", None))
        green == PyOr(Get(thresholds, "green", None), Get(thresholds, "good", None))
        status == IF target \in {"dax", "powerbi"}
                  THEN kpi_status_dax(metric_expr, direction, red, yellow, green)
                  ELSE kpi_status_sql(metric_expr, direction, red, yellow, green)
        tv == PyStr(target_value)
    IN  IF metric_code.k \in {"list", "map"} THEN KpiRaise("TypeError")     \* unhashable
        ELSE IF ~IsMap(thresholds) THEN KpiRaise("AttributeError")          \* no get
        ELSE IF ~IsStr(direction) THEN KpiRaise("AttributeError")           \* no lower
        ELSE KpiResult(code, metric_code, status, target_value.k # "null",
                <<"(">> \o metric_expr \o <<" ", "-", " ">> \o tv \o <<")">>,
                <<"(", "(">> \o metric_expr \o <<" ", "-", " ">> \o tv
                    \o <<")", " ", "/", " ", "NULLIF", "(">> \o tv
                    \o <<",", " ", "0", ")", " ", "*", " ", "100", ")">>)

(***************************************************************************)
(* Inputs tried for the metrics compiler                                   *)
(***************************************************************************)
MaxOperands == 2    \* longest args list of an enumerated arithmetic / comparison node
MaxStrLen == 3      \* longest enumerated string literal value, in characters

MetricDoc(code) == Map([metric |-> Word(code)])
SalesAmount == RefDoc(<<"Sales", DOT, "Amount">>)
OrderDate == RefDoc(<<"Sales", DOT, "OrderDate">>)
SumSales == Map([agg |-> Word("SUM"), arg |-> SalesAmount])
RegionIsEast ==
    Map([op |-> Word("="), left |-> RefDoc(<<"Sales", DOT, "Region">>),
         right |-> LitDoc(Str(<<"East">>))])

\* operands placed in every slot of the composite nodes
MetricLeaves == { SalesAmount, MetricDoc("A"), MetricDoc("B"), Num(1) }

StringFormulas ==
    { <<"SUM", "(", "Sales", DOT, "Amount", ")">>, <<"sum", "(", "Sales", DOT, "Amount", ")">>,
      <<"[", "TotalCost", "]">>, <<"Sales", DOT, "Amount">>, <<"1">>, <<"1", DOT, "5">>,
      <<"hello">>, <<" ", "[", "A", "]", " ">>, <<"COUNT", "(", "[", "A", "]", ")">>,
      <<"-1", DOT, "5">>, <<"1", DOT, "5", DOT, "2">>, <<"AVG", "(", "5", ")">>,
      <<"MEDIAN", "(", "Sales", DOT, "Amount">>, <<"MAX", "(", ")">>,
      <<"Sales", DOT, "dbo", DOT, "Amount">> }

AggDocs ==
    { Map([agg |-> Word(f), arg |-> a]) :
        f \in Range(AggFunc) \cup {"sum", "bogus"}, a \in {SalesAmount, MetricDoc("A")} }
    \cup { Map([agg |-> Word(f), arg |-> SalesAmount, filter |-> c]) :
             f \in Range(AggFunc), c \in {RegionIsEast, MetricDoc("B")} }
    \cup { Map([agg |-> Word("SUM"), field |-> SalesAmount]), Map([agg |-> Word("SUM")]),
           Map([agg |-> Num(5), arg |-> SalesAmount]) }

TimeIntelDocs ==
    { Map([timeIntel |-> Word(f), metric |-> m, dateColumn |-> OrderDate]) :
        f \in Range(TimeIntelFunc) \cup {"ytd", "bogus"}, m \in {SumSales, MetricDoc("A")} }
    \cup { Map([timeIntel |-> Word(f), metric |-> SumSales, dateColumn |-> OrderDate,
                offset |-> Num(n)]) : f \in {"PARALLELPERIOD", "DATEADD"}, n \in {0, 3} }
    \cup { Map([timeIntel |-> Word("YTD"), arg |-> SumSales, date |-> OrderDate]),
           Map([timeIntel |-> Word("YTD")]),
           Map([timeIntel |-> Num(5), metric |-> SumSales, dateColumn |-> OrderDate]),
           Map([timeIntel |-> Word("YTD"), metric |-> SumSales,
                dateColumn |-> Str(<<"Sales", DOT, "OrderDate">>)]) }

BinaryOps == {"+", "-", "*", "/", "%", "=", "==", "!=", "<>", ">", "<", ">=", "<="}

BinaryDocs ==
    { Map([op |-> Word(o), args |-> List(a)]) :
        o \in BinaryOps, a \in SeqsUpTo(MetricLeaves, MaxOperands) }
    \cup { Map([op |-> Word(o), left |-> l, right |-> r]) :
             o \in {"+", "/", ">"}, l \in MetricLeaves, r \in MetricLeaves }
    \cup { Map([op |-> Word(o)]) : o \in {"+", ">", "and"} }
    \cup { Map([op |-> Word("+"), left |-> Num(1), right |-> Num(1), args |-> List(<<>>)]),
           Map([op |-> Word("+"), left |-> Num(1)]),
           Map([op |-> Word("+"), args |-> Num(1)]) }

CondDocs ==
    { Map([if |-> RegionIsEast, then |-> t, else |-> e]) :
        t \in MetricLeaves, e \in MetricLeaves }
    \cup { Map([if |-> c, then |-> t]) : c \in {RegionIsEast, MetricDoc("B")},
                                          t \in MetricLeaves }
    \cup { Map([if |-> RegionIsEast]) }

CoalesceDocs ==
    { Map([coalesce |-> List(a)]) : a \in SeqsUpTo(MetricLeaves, MaxOperands) }
    \cup { Map([coalesce |-> Num(1)]), Map([coalesce |-> Word("x")]) }

DivideDocs ==
    { Map([divide |-> List(a)]) : a \in SeqsUpTo(MetricLeaves, MaxOperands) }
    \cup { Map([divide |-> List(<<n, d, Num(1)>>)]) : n \in MetricLeaves, d \in MetricLeaves }
    \cup { Map([divide |-> List(<<SalesAmount, Num(1), MetricDoc("B")>>)]) }
    \cup { Map([divide |-> Bool(TRUE), numerator |-> n, denominator |-> d]) :
             n \in MetricLeaves, d \in MetricLeaves }
    \cup { Map([divide |-> Bool(TRUE), numerator |-> SalesAmount, denominator |-> Num(1),
                alternate |-> a]) : a \in {Num(1), MetricDoc("B"), None} }
    \cup { Map([divide |-> Bool(TRUE)]) }

WindowDocs ==
    { Map([window |-> Word(f), metric |-> m]) :
        f \in {"rank", "SUM"}, m \in {SumSales, MetricDoc("A")} }
    \cup { Map([window |-> Word("SUM"), metric |-> SumSales,
                partitionBy |-> List(<<RefDoc(<<"Sales", DOT, "Region">>)>>),
                orderBy |-> List(<<OrderDate, SalesAmount>>)]),
           Map([window |-> Word("SUM"), metric |-> SumSales, partitionBy |-> List(<<>>)]),
           Map([window |-> Word("SUM"), metric |-> SumSales, orderBy |-> List(<<OrderDate>>)]),
           Map([window |-> Word("SUM"), metric |-> MetricDoc("A"),
                partitionBy |-> List(<<MetricDoc("B")>>)]),
           Map([window |-> Num(1), metric |-> SumSales]),
           Map([window |-> Word("SUM"), metric |-> SumSales, orderBy |-> Num(1)]) }

\* a formula that holds a metric reference in every kind of position
DeepDoc ==
    Map([if |-> Map([op |-> Word(">"), args |-> List(<<MetricDoc("Margin"), Num(0)>>)]),
         then |-> Map([divide |-> List(<<MetricDoc("TotalSales"), MetricDoc("TotalCost"),
                                         MetricDoc("Z")>>)]),
         else |-> Map([coalesce |-> List(<<
                    Map([agg |-> Word("SUM"), arg |-> MetricDoc("D"),
                         filter |-> MetricDoc("C")]),
                    Map([timeIntel |-> Word("YTD"), metric |-> MetricDoc("B"),
                         dateColumn |-> OrderDate]),
                    Map([window |-> Word("SUM"), metric |-> MetricDoc("A")]),
                    Map([op |-> Word("+"), args |-> List(<<MetricDoc("A"),
                                                           MetricDoc("TotalSales")>>)])>>)])])

LiteralDocs ==
    { None, Bool(TRUE), Bool(FALSE), Num(0), Num(1), Float(<<"1", DOT, "5">>),
      List(<<>>), List(<<Num(1), Word("x")>>), EmptyMap, Map([foo |-> Num(1)]),
      LitDoc(None), LitDoc(Bool(TRUE)), LitDoc(Num(1)), LitDoc(List(<<Word("x")>>)),
      Map([lit |-> Num(1), type |-> Word("int")]),
      Map([metric |-> Num(1)]), Map([ref |-> Num(5)]), Map([ref |-> Str(<<"Amount">>)]),
      Map([table |-> Word("Sales"), field |-> Word("Amount")]),
      Map([table |-> Word("Sales")]) }
    \cup { LitDoc(Str(v)) : v \in LitStrs }

\* the discriminating keys of a structural document, highest priority first
DiscriminatingKeys ==
    <<"lit", "timeIntel", "agg", "metric", "ref", "op", "if", "coalesce", "divide",
      "window">>
SupportKeys == {"arg", "dateColumn", "args", "then"}

FullDoc ==
    [lit |-> Num(1), timeIntel |-> Word("YTD"), agg |-> Word("SUM"),
     metric |-> Word("A"), ref |-> Str(<<"Sales", DOT, "Amount">>), op |-> Word("+"),
     if |-> RegionIsEast, coalesce |-> List(<<Num(1)>>),
     divide |-> List(<<Num(1), Num(1)>>), window |-> Word("SUM"),
     arg |-> SalesAmount, dateColumn |-> OrderDate, args |-> List(<<Num(1), Num(1)>>),
     then |-> Num(1)]

\* documents carrying two of the discriminating keys, or every key from some
\* priority down, each also with an operator no parser recognises
PriorityDocs ==
    LET keySets == { T \in SUBSET Range(DiscriminatingKeys) : Cardinality(T) = 2 }
                   \cup { { DiscriminatingKeys[j] : j \in i..Len(DiscriminatingKeys) } :
                            i \in 1..Len(DiscriminatingKeys) }
        docs == { [k \in T \cup SupportKeys |-> FullDoc[k]] : T \in keySets }
    IN  { Map(d) : d \in docs }
        \cup { Map([d EXCEPT !["op"] = Word("and")]) : d \in { x \in docs : "op" \in DOMAIN x } }
        \cup { Map([table |-> Word("Sales"), field |-> Word("Amount"), op |-> Word("+"),
                    args |-> List(<<Num(1), Num(1)>>)]),
               Map([metric |-> Num(1), window |-> Word("SUM")]) }

MetricFormulas ==
    { Str(f) : f \in StringFormulas }
    \cup MetricLeaves \cup LiteralDocs \cup AggDocs \cup TimeIntelDocs \cup BinaryDocs
    \cup CondDocs \cup CoalesceDocs \cup DivideDocs \cup WindowDocs \cup { DeepDoc }
    \cup PriorityDocs

MetricDefs ==
    { Map([code |-> Word("M"), formula |-> f]) : f \in MetricFormulas }
    \cup { Map([metricCode |-> Word("M"), expressionLogical |-> SumSales]),
           Map([MT_Code |-> Word("M"), MT_FormulaJSON |-> SumSales]),
           Map([MT_Code |-> Word("M"),
                MT_FormulaJSON |-> Str(JsonDumps(Map([expr |-> Bool(TRUE)])))]),
           Map([formula |-> Num(0), expressionLogical |-> MetricDoc("A"),
                notes |-> Word("x")]),
           EmptyMap }

MetricTargets ==
    { "tsql", "TSQL", "sqlserver", "dax", "DAX", "Dax", "powerbi", "spark", "databricks",
      "sparksql", "postgres", "redshift", "python", "Python", "snowflake", "oracle" }

\* lookups of already compiled metrics: none, and one that knows A and TotalSales
MetricLookups ==
    { NoCache,
      (<<"A">> :> <<"SUM", "(", "[", "Sales", "]", DOT, "[", "Amount", "]", ")">>)
        @@ (<<"TotalSales">> :> <<"COUNT", "(", "*", ")">>) }

(***************************************************************************)
(* Inputs tried for compile_kpi                                            *)
(***************************************************************************)
NoKeys == [x \in {} |-> None]

KpiCodeParts == { NoKeys, [code |-> Word("RevenueKPI")] }
KpiMetricParts ==
    { NoKeys, [metricCode |-> Word("TotalSales")], [metricCode |-> Word("Churn")],
      [KPI_MetricCode |-> Word("TotalSales")] }
KpiDirectionParts ==
    { NoKeys, [direction |-> Word("HigherIsBetter")], [direction |-> Word("LowerIsBetter")],
      [direction |-> Word("MAXIMIZE")], [KPI_Direction |-> Word("minimize")] }
KpiThresholdParts ==
    { NoKeys, [thresholds |-> Map([red |-> Num(1)])],
      [thresholds |-> Map([red |-> Num(0), yellow |-> Num(2)])],
      [thresholds |-> Map([yellow |-> Num(2)])],
      [thresholds |-> Map([red |-> Num(100000), yellow |-> Num(500000)])],
      [thresholds |-> Map([red |-> Num(1), yellow |-> Num(2), green |-> Num(0)])],
      [thresholds |-> Map([green |-> Num(3)])],
      [thresholds |-> Str(<<"{">>)],
      [KPI_ThresholdsJSON |-> Str(JsonDumps(Map([red |-> Num(1), yellow |-> Num(2)])))] }
    \cup { [thresholds |-> m] : m \in ThresholdMaps }
    \cup { [thresholds |-> Str(JsonDumps(m))] : m \in ThresholdMaps }
KpiTargetValueParts ==
    { NoKeys, [targetValue |-> Num(100)], [targetValue |-> Num(0)],
      [KPI_TargetValue |-> Num(50)] }

KpiDefs ==
    { Map(c @@ m @@ d @@ t @@ v) :
        c \in KpiCodeParts, m \in KpiMetricParts, d \in KpiDirectionParts,
        t \in KpiThresholdParts, v \in KpiTargetValueParts }

KpiTargets ==
    { "tsql", "TSQL", "sqlserver", "dax", "DAX", "Dax", "powerbi", "PowerBI", "spark",
      "databricks", "postgres", "oracle" }

\* compiled metrics handed to compile_kpi: none, and TotalSales compiled for tsql
KpiMetrics ==
    { [x \in {} |-> MetricRaise("")],
      (<<"TotalSales">> :>
        compile_metric(Map([code |-> Word("TotalSales"),
                            formula |-> Str(<<"SUM", "(", "Sales", DOT, "Amount", ")">>)]),
                       "tsql", NoCache)) }

(***************************************************************************)
(* Inputs tried for string literals                                        *)
(***************************************************************************)
\* literal values: every string over the two quote characters and a letter
QuoteAlphabet == {SQ, DQ, "a"}
LiteralValues == SeqsUpTo(QuoteAlphabet, MaxStrLen)

LiteralTargets ==
    { "tsql", "TSQL", "sqlserver", "postgres", "snowflake", "spark", "databricks",
      "bigquery", "dax", "DAX", "powerbi", "python", "redshift", "sparksql", "oracle" }

(***************************************************************************)
(* The compilers as state machines                                         *)
(***************************************************************************)
NotRun == [ok |-> TRUE, text |-> <<"<not run>">>, err |-> "none"]
NoSelf == [target |-> "<none>"]

GuardIdle ==
    gPc = "idle" /\ gTarget = "" /\ gDoc = None /\ gSelf = NoSelf /\ gOut = NotRun
MetricIdle ==
    /\ mPc = "idle" /\ mTarget = "" /\ mDef = None /\ mLookup = NoCache
    /\ mExpr = NoExpr /\ mOut = NotRun
KpiIdle ==
    kPc = "idle" /\ kTarget = "" /\ kDef = None /\ kMetrics = NoCache /\ kOut = NotRun
LiteralIdle ==
    qPc = "idle" /\ qCompiler = "" /\ qTarget = "" /\ qValue = <<>> /\ qOut = NotRun
SharedIdle ==
    /\ sTree = NoExpr /\ sLookup = NoCache /\ sTree0 = NoExpr /\ sLookup0 = NoCache
    /\ sThreads = <<>>
MigrationIdle ==
    /\ rPc = "idle" /\ rRun = None /\ rNow = 0 /\ rPrev = None
    /\ rOut = None /\ rCalls = 0 /\ rOnlyAdvance = TRUE
LineageIdle ==
    lPc = "idle" /\ lGraph = None /\ lStart = "" /\ lDepth = 0 /\ lOut = NotRun
JobIdle == jPc = "idle" /\ jSteps = <<>> /\ jOut = NotRun
ApplyIdle == aProject = FALSE /\ aStore = None /\ aStore0 = None /\ aRequests = <<>>
OrderIdle ==
    /\ oPc = "idle" /\ oTarget = "" /\ oDefs = <<>> /\ oOrder = <<>>
    /\ oLookup = NoCache /\ oOut = <<>>
ExtIdle == MigrationIdle /\ LineageIdle /\ JobIdle /\ ApplyIdle /\ OrderIdle

GuardInit ==
    /\ gPc = "new"
    /\ gTarget \in GuardTargets
    /\ gDoc \in GuardDocs
    /\ gSelf = NoSelf
    /\ gOut = NotRun
    /\ MetricIdle /\ KpiIdle /\ LiteralIdle /\ SharedIdle /\ ExtIdle

\* compiler = DSLCompiler(target)
NewDSLCompiler ==
    /\ gPc = "new"
    /\ gSelf' = DSLCompiler(gTarget)
    /\ gPc' = "ready"
    /\ UNCHANGED <<gTarget, gDoc, gOut, metricVars, kpiVars, literalVars, sharedVars, extVars>>

\* compiler.compile_guard(dsl)
CompileGuard ==
    /\ gPc = "ready"
    /\ gOut' = compile_guard(gSelf, gDoc)
    /\ gPc' = "done"
    /\ UNCHANGED <<gTarget, gDoc, gSelf, metricVars, kpiVars, literalVars, sharedVars, extVars>>

GuardNext == NewDSLCompiler \/ CompileGuard

GuardSpec == GuardInit /\ [][GuardNext]_vars

\* the formula compile_metric reads out of a metric definition
FormulaOf(metric_def) ==
    PyOr(PyOr(Get(metric_def, "formula", None), Get(metric_def, "expressionLogical", None)),
         Get(metric_def, "MT_FormulaJSON", EmptyMap))

MetricInit ==
    /\ mPc = "new"
    /\ mTarget \in MetricTargets
    /\ mDef \in MetricDefs
    /\ mLookup \in MetricLookups
    /\ mExpr = NoExpr
    /\ mOut = NotRun
    /\ GuardIdle /\ KpiIdle /\ LiteralIdle /\ SharedIdle /\ ExtIdle

\* parse_metric_formula(formula)
ParseMetricFormula ==
    /\ mPc = "new"
    /\ mExpr' = parse_metric_formula(FormulaOf(mDef))
    /\ mPc' = "parsed"
    /\ UNCHANGED <<mTarget, mDef, mLookup, mOut, guardVars, kpiVars, literalVars, sharedVars, extVars>>

\* compile_metric(metric_def, target, metrics_lookup)
CompileMetric ==
    /\ mPc = "new"
    /\ mOut' = compile_metric(mDef, mTarget, mLookup)
    /\ mPc' = "done"
    /\ UNCHANGED <<mTarget, mDef, mLookup, mExpr, guardVars, kpiVars, literalVars, sharedVars, extVars>>

MetricNext == ParseMetricFormula \/ CompileMetric

MetricSpec == MetricInit /\ [][MetricNext]_vars

KpiInit ==
    /\ kPc = "new"
    /\ kTarget \in KpiTargets
    /\ kDef \in KpiDefs
    /\ kMetrics \in KpiMetrics
    /\ kOut = NotRun
    /\ GuardIdle /\ MetricIdle /\ LiteralIdle /\ SharedIdle /\ ExtIdle

\* compile_kpi(kpi_def, metrics, target)
CompileKpi ==
    /\ kPc = "new"
    /\ kOut' = compile_kpi(kDef, kMetrics, kTarget)
    /\ kPc' = "done"
    /\ UNCHANGED <<kTarget, kDef, kMetrics, guardVars, metricVars, literalVars, sharedVars, extVars>>

KpiNext == CompileKpi

KpiSpec == KpiInit /\ [][KpiNext]_vars

LiteralInit ==
    /\ qPc = "new"
    /\ qCompiler \in {"dsl", "metrics"}
    /\ qTarget \in LiteralTargets
    /\ qValue \in LiteralValues
    /\ qOut = NotRun
    /\ GuardIdle /\ MetricIdle /\ KpiIdle /\ SharedIdle /\ ExtIdle

\* compile_dsl({"expr": {"lit": value}}, target)
CompileGuardLiteral ==
    /\ qPc = "new" /\ qCompiler = "dsl"
    /\ qOut' = compile_dsl(Map([expr |-> LitDoc(Str(qValue))]), qTarget)
    /\ qPc' = "done"
    /\ UNCHANGED <<qCompiler, qTarget, qValue, guardVars, metricVars, kpiVars, sharedVars, extVars>>

\* compile_metric({"formula": {"lit": value}}, target).expression
CompileMetricLiteral ==
    /\ qPc = "new" /\ qCompiler = "metrics"
    /\ qOut' = Ok(compile_metric(Map([formula |-> LitDoc(Str(qValue))]),
                                 qTarget, NoCache).expression)
    /\ qPc' = "done"
    /\ UNCHANGED <<qCompiler, qTarget, qValue, guardVars, metricVars, kpiVars, sharedVars, extVars>>

LiteralNext == CompileGuardLiteral \/ CompileMetricLiteral

LiteralSpec == LiteralInit /\ [][LiteralNext]_vars

\* ---- one parsed tree and one lookup shared by two compiling threads ----

Threads == {"t1", "t2"}
SharedTargets == {"tsql", "dax", "spark", "python"}

\* the inner metrics a hand-built TimeIntelExpr carries as raw dicts
RawMetricDocs == { SumSales, SalesAmount, MetricDoc("A"), Num(1) }

HandBuiltTrees ==
    { TimeIntelExpr(f, RawDict(d), parse_field_ref(OrderDate), None) :
        f \in {"YTD", "PY", "DATESMTD"}, d \in RawMetricDocs }

ParsedTrees ==
    { parse_metric_formula(f) :
        f \in { g \in MetricFormulas : ~IsRaise(parse_metric_formula(g)) } }

SharedTrees == ParsedTrees \cup HandBuiltTrees

\* what _compile_time_intel stores into the node its caller passed: nothing, the
\* parsed metric goes into a new TimeIntelExpr bound to the local name only
time_intel_stored_in_place(ti) ==
    IF ti.metric.t = "Dict"
    THEN [ti EXCEPT !.metric = parse_metric_formula(ti.metric.doc)]
    ELSE ti

time_intel_stored(ti) == ti

\* the tree the caller holds once compile(expr) has returned: every node the
\* dispatcher visited, with the attribute stores the visit made
RECURSIVE tree_after_compile(_)
tree_after_compile(expr) ==
    CASE expr.t = "AggExpr" ->
            [expr EXCEPT !.arg = tree_after_compile(@), !.filter = tree_after_compile(@)]
      [] expr.t = "TimeIntelExpr" ->
            LET ti == time_intel_stored(expr)
            IN  [ti EXCEPT !.metric = tree_after_compile(@)]
      [] expr.t \in {"ArithExpr", "CompareExpr"} ->
            [expr EXCEPT !.left = tree_after_compile(@), !.right = tree_after_compile(@)]
      [] expr.t = "CondExpr" ->
            [expr EXCEPT !.condition = tree_after_compile(@),
                         !.thenExpr = tree_after_compile(@),
                         !.elseExpr = tree_after_compile(@)]
      [] expr.t = "CoalesceExpr" ->
            [expr EXCEPT !.args = [i \in DOMAIN @ |-> tree_after_compile(@[i])]]
      [] expr.t = "DivideExpr" ->
            [expr EXCEPT !.numerator = tree_after_compile(@),
                         !.denominator = tree_after_compile(@)]
      [] expr.t = "WindowExpr" -> [expr EXCEPT !.metric = tree_after_compile(@)]
      [] OTHER -> expr

SharedInit ==
    /\ sTree \in SharedTrees
    /\ sLookup \in MetricLookups
    /\ sTree0 = sTree
    /\ sLookup0 = sLookup
    /\ sThreads \in [Threads -> { [pc |-> "start", target |-> tg, self |-> NoSelf,
                                   out |-> NotRun] : tg \in SharedTargets }]
    /\ GuardIdle /\ MetricIdle /\ KpiIdle /\ LiteralIdle /\ ExtIdle

\* compile_metric up to the parse: a compiler for the target whose cache is a
\* copy of the caller's lookup when the lookup is non-empty
SharedNewCompiler(th) ==
    /\ sThreads[th].pc = "start"
    /\ sThreads' = [sThreads EXCEPT ![th].pc = "ready",
                        ![th].self = [MetricsCompiler(sThreads[th].target) EXCEPT
                            !.metrics_cache = IF DOMAIN sLookup # {} THEN sLookup
                                              ELSE NoCache]]
    /\ UNCHANGED <<sTree, sLookup, sTree0, sLookup0,
                   guardVars, metricVars, kpiVars, literalVars, extVars>>

\* compiler.compile(expr) on the shared tree
SharedCompile(th) ==
    /\ sThreads[th].pc = "ready"
    /\ sThreads' = [sThreads EXCEPT ![th].pc = "done",
                        ![th].out = metric_compile(sThreads[th].self, sTree)]
    /\ sTree' = tree_after_compile(sTree)
    /\ UNCHANGED <<sLookup, sTree0, sLookup0,
                   guardVars, metricVars, kpiVars, literalVars, extVars>>

SharedNext ==
    \/ \E th \in Threads : SharedNewCompiler(th)
    \/ \E th \in Threads : SharedCompile(th)

SharedSpec == SharedInit /\ [][SharedNext]_vars

\* ---------------------------------------------------------------------------
\* Migration runner (migrate/runner.py, migrate/state.py)
\* ---------------------------------------------------------------------------

\* DEFAULT_CHECKPOINTS: the checkpoint template of every run
DEFAULT_CHECKPOINTS ==
    <<"ProvisionTarget", "StartSync", "ParityChecks", "CutoverRead",
      "CutoverWrite", "ColdStandby", "Decommission">>

\* the clock runs from tick 0 to tick MaxClock
MaxClock == 2
\* now() is printed with %S: whole seconds, SecondTicks clock ticks each
SecondTicks == 4
\* timedelta(days=1), scaled down to clock ticks
DayTicks == 4
\* advance_checkpoint is called at most MaxCalls times in a row on a new run
MaxCalls == 10
\* the cold_days values create_run is called with
ColdDays == {0, 1}
\* the notes handed to advance_checkpoint
AdvanceNotes == {Str(<<"checked">>)}
\* the error texts handed to fail_checkpoint
FailErrors == {Str(<<"sync broke">>)}
\* the reasons handed to rollback
RollbackReasons == {<<"parity">>}

\* state.now(): the clock printed to whole seconds
now(t) == Num(t \div SecondTicks)

\* MigrationCheckpoint(code=c), serialized
MigrationCheckpoint(c) ==
    [code |-> c, status |-> "Pending", startedAtUTC |-> None, finishedAtUTC |-> None,
     durationSeconds |-> None, notes |-> None, errorMessage |-> None]

\* create_run(..., cold_days) called at clock tick t
create_run(cold_days, t) ==
    [status |-> "Planned",
     createdAtUTC |-> now(t),
     checkpoints |-> [i \in 1..Len(DEFAULT_CHECKPOINTS) |->
                          MigrationCheckpoint(DEFAULT_CHECKPOINTS[i])],
     rollbackAvailableUntil |-> Num((t + cold_days * DayTicks) \div SecondTicks)]

\* variant of FirstWithStatus: the last checkpoint with the status is taken
LastWithStatus(checkpoints, status) ==
    IF \E i \in 1..Len(checkpoints) : checkpoints[i].status = status
    THEN CHOOSE i \in 1..Len(checkpoints) :
             /\ checkpoints[i].status = status
             /\ \A j \in (i + 1)..Len(checkpoints) : checkpoints[j].status # status
    ELSE 0

\* index of the first checkpoint with the given status, 0 when there is none
FirstWithStatus(checkpoints, status) ==
    IF \E i \in 1..Len(checkpoints) : checkpoints[i].status = status
    THEN CHOOSE i \in 1..Len(checkpoints) :
             /\ checkpoints[i].status = status
             /\ \A j \in 1..(i - 1) : checkpoints[j].status # status
    ELSE 0

\* variant of complete_current: the checkpoint is put back to Pending
complete_current_restarted(cp, notes, t) ==
    [cp EXCEPT !.status = "Pending", !.finishedAtUTC = now(t)]

\* step 1.2 of advance_checkpoint: the current checkpoint, completed
complete_current(cp, notes, t) ==
    [cp EXCEPT !.status = "Completed",
               !.finishedAtUTC = now(t),
               !.notes = IF notes # None THEN notes ELSE @,
               !.durationSeconds = IF cp.startedAtUTC # None
                                   THEN Num(now(t).v - cp.startedAtUTC.v) ELSE @]

\* a checkpoint put in progress at tick t
start_checkpoint(cp, t) ==
    [cp EXCEPT !.status = "InProgress", !.startedAtUTC = now(t)]

\* variant of start_next: the next checkpoint is left as it was
start_next_left_pending(checkpoints, current_idx, t) == checkpoints

\* step 1.3 of advance_checkpoint: the checkpoints after the current one
\* (at current_idx) has been completed
start_next(checkpoints, current_idx, t) ==
    IF current_idx + 1 <= Len(checkpoints)
    THEN [checkpoints EXCEPT ![current_idx + 1] = start_checkpoint(@, t)]
    ELSE checkpoints

\* advance_checkpoint(run, notes) called at clock tick t
advance_checkpoint(run, notes, t) ==
    LET checkpoints == run.checkpoints
        current_idx == FirstWithStatus(checkpoints, "InProgress")
        pending_idx == FirstWithStatus(checkpoints, "Pending")
    IN  IF current_idx # 0
        THEN [run EXCEPT
                 !.checkpoints =
                     start_next([checkpoints EXCEPT ![current_idx] =
                                     complete_current(@, notes, t)], current_idx, t),
                 !.status = IF current_idx + 1 <= Len(checkpoints)
                            THEN "InProgress" ELSE "Completed"]
        ELSE IF pending_idx # 0
        THEN [run EXCEPT !.checkpoints[pending_idx] = start_checkpoint(@, t),
                         !.status = "InProgress"]
        ELSE run

\* the status fail_checkpoint leaves on the run
status_after_fail(run) == "Failed"

\* fail_checkpoint(run, error) called at clock tick t
fail_checkpoint(run, error, t) ==
    LET current_idx == FirstWithStatus(run.checkpoints, "InProgress")
        failed == IF current_idx # 0
                  THEN [run.checkpoints EXCEPT ![current_idx] =
                            [@ EXCEPT !.status = "Failed", !.finishedAtUTC = now(t),
                                      !.errorMessage = error]]
                  ELSE run.checkpoints
    IN  [run EXCEPT !.checkpoints = failed, !.status = status_after_fail(run)]

\* variant of rollback_expired: the deadline is never looked at
rollback_never_expires(run, t) == FALSE

\* step 1.1 of rollback: datetime.now(timezone.utc) > deadline, the deadline
\* being a whole second and the clock not
rollback_expired(run, t) ==
    /\ run.rollbackAvailableUntil # None
    /\ t > run.rollbackAvailableUntil.v * SecondTicks

\* step 1.2 of rollback: one checkpoint after the pass over the checkpoints
skip_remaining(cp, reason) ==
    IF cp.status \in {"Pending", "InProgress"}
    THEN [cp EXCEPT !.status = "Skipped",
                    !.notes = Str(<<"Skipped due to rollback: ">> \o reason)]
    ELSE cp

\* rollback(run, reason) called at clock tick t: the run it returns, or the
\* run untouched when it raises
rollback(run, reason, t) ==
    IF rollback_expired(run, t)
    THEN run
    ELSE [run EXCEPT !.checkpoints = [i \in 1..Len(run.checkpoints) |->
                                          skip_remaining(run.checkpoints[i], reason)],
                     !.status = "RolledBack"]

\* number of checkpoints with the given status
CountStatus(checkpoints, status) ==
    Cardinality({i \in 1..Len(checkpoints) : checkpoints[i].status = status})

\* get_progress(run)
get_progress(run) ==
    LET checkpoints == run.checkpoints
        total == Len(checkpoints)
        completed == CountStatus(checkpoints, "Completed")
        failed == CountStatus(checkpoints, "Failed")
        skipped == CountStatus(checkpoints, "Skipped")
        current_idx == FirstWithStatus(checkpoints, "InProgress")
    IN  [status |-> run.status,
         percent |-> IF total > 0 THEN (100 * (completed + skipped)) \div total ELSE 0,
         currentCheckpoint |-> IF current_idx # 0 THEN checkpoints[current_idx].code
                               ELSE None,
         completed |-> completed, failed |-> failed, skipped |-> skipped,
         total |-> total]

NoCall == [op |-> "", err |-> "none", at |-> 0]

coreVars == <<guardVars, metricVars, kpiVars, literalVars, sharedVars>>
CoreIdle == GuardIdle /\ MetricIdle /\ KpiIdle /\ LiteralIdle /\ SharedIdle

MigrationInit ==
    /\ rPc = "none"
    /\ rRun = None
    /\ rNow = 0
    /\ rPrev = None
    /\ rOut = NoCall
    /\ rCalls = 0
    /\ rOnlyAdvance = TRUE
    /\ CoreIdle /\ LineageIdle /\ JobIdle /\ ApplyIdle /\ OrderIdle

\* run = create_run(project_id, source, target, cold_days=cold_days)
MigCreateRun ==
    /\ rPc = "none"
    /\ \E cold_days \in ColdDays : rRun' = create_run(cold_days, rNow)
    /\ rPc' = "run"
    /\ rPrev' = None
    /\ rOut' = [op |-> "create_run", err |-> "none", at |-> rNow]
    /\ UNCHANGED <<rNow, rCalls, rOnlyAdvance, coreVars, lineageVars, jobVars, applyVars, orderVars>>

\* run = advance_checkpoint(run, notes)
MigAdvance ==
    /\ rPc = "run"
    /\ rOnlyAdvance => rCalls < MaxCalls
    /\ \E notes \in AdvanceNotes : rRun' = advance_checkpoint(rRun, notes, rNow)
    /\ rPrev' = rRun
    /\ rOut' = [op |-> "advance_checkpoint", err |-> "none", at |-> rNow]
    /\ rCalls' = IF rOnlyAdvance THEN rCalls + 1 ELSE rCalls
    /\ UNCHANGED <<rPc, rNow, rOnlyAdvance, coreVars, lineageVars, jobVars, applyVars, orderVars>>

\* run = fail_checkpoint(run, error)
MigFail ==
    /\ rPc = "run"
    /\ \E error \in FailErrors : rRun' = fail_checkpoint(rRun, error, rNow)
    /\ rPrev' = rRun
    /\ rOut' = [op |-> "fail_checkpoint", err |-> "none", at |-> rNow]
    /\ rOnlyAdvance' = FALSE
    /\ UNCHANGED <<rPc, rNow, rCalls, coreVars, lineageVars, jobVars, applyVars, orderVars>>

\* run = rollback(run, reason), which raises ValueError past the deadline
MigRollback ==
    /\ rPc = "run"
    /\ \E reason \in RollbackReasons : rRun' = rollback(rRun, reason, rNow)
    /\ rPrev' = rRun
    /\ rOut' = [op |-> "rollback",
                err |-> IF rollback_expired(rRun, rNow) THEN "ValueError" ELSE "none",
                at |-> rNow]
    /\ rOnlyAdvance' = FALSE
    /\ UNCHANGED <<rPc, rNow, rCalls, coreVars, lineageVars, jobVars, applyVars, orderVars>>

\* time passes between two calls
MigTick ==
    /\ rPc \in {"none", "run"}
    /\ rNow < MaxClock
    /\ rNow' = rNow + 1
    /\ UNCHANGED <<rPc, rRun, rPrev, rOut, rCalls, rOnlyAdvance, coreVars, lineageVars, jobVars, applyVars, orderVars>>

MigrationNext ==
    \/ MigCreateRun
    \/ MigAdvance
    \/ MigFail
    \/ MigRollback
    \/ MigTick

MigrationSpec == MigrationInit /\ [][MigrationNext]_vars

\* ---------------------------------------------------------------------------
\* Lineage graph and queries (compiler/lineage/graph.py, compiler/lineage/query.py)
\* ---------------------------------------------------------------------------

\* the node ids edges are drawn over, and the order add_edge is called in
NodeIds == <<"src:1", "tgt:1", "metric:1">>
\* a graph has at most MaxEdges edges
MaxEdges == 3
\* max_depth's default
DefaultDepth == 100
\* the max_depth values handed to the traversals
MaxDepths == {0, 1, 2, DefaultDepth}
\* the change_type values handed to get_impact_analysis
ChangeTypes == {"modify", "delete"}
\* the nodeType each id is registered with
NodeTypeOf ==
    "src:1" :> "source_field" @@ "tgt:1" :> "canonical_field" @@ "metric:1" :> "metric"

IdSet == {NodeIds[i] : i \in 1..Len(NodeIds)}
\* every (sourceId, targetId) pair, in the order the edges are added
RECURSIVE PairsFrom(_, _)
PairsFrom(i, j) ==
    IF i > Len(NodeIds) THEN <<>>
    ELSE IF j > Len(NodeIds) THEN PairsFrom(i + 1, 1)
    ELSE <<[sourceId |-> NodeIds[i], targetId |-> NodeIds[j]]>> \o PairsFrom(i, j + 1)
AllEdges == PairsFrom(1, 1)
EdgeSets == {E \in SUBSET {AllEdges[i] : i \in 1..Len(AllEdges)} : Cardinality(E) <= MaxEdges}

\* LineageGraph after add_node for each registered id and add_edge for each edge
LineageGraphs ==
    {[nodes |-> registered,
      edges |-> SelectSeq(AllEdges, LAMBDA e : e \in E)] :
         registered \in SUBSET IdSet, E \in EdgeSets}

\* self._forward.get(node_id, []): targets of the edges leaving node_id
forward(graph, node_id) ==
    LET out == SelectSeq(graph.edges, LAMBDA e : e.sourceId = node_id)
    IN  [i \in 1..Len(out) |-> out[i].targetId]
\* self._backward.get(node_id, []): sources of the edges entering node_id
backward(graph, node_id) ==
    LET inc == SelectSeq(graph.edges, LAMBDA e : e.targetId = node_id)
    IN  [i \in 1..Len(inc) |-> inc[i].sourceId]
\* the adjacency list the traversal in the given direction reads
adjacent(graph, direction, node_id) ==
    IF direction = "downstream" THEN forward(graph, node_id) ELSE backward(graph, node_id)

\* variant of skip_entry: max_depth is not looked at
skip_entry_any_depth(current, depth, visited, max_depth) == current \in visited

\* the traversal's test for skipping a queue entry
skip_entry(current, depth, visited, max_depth) ==
    current \in visited \/ depth > max_depth

\* the while loop of traverse_downstream / traverse_upstream
RECURSIVE bfs(_, _, _, _, _)
bfs(graph, direction, queue, visited, max_depth) ==
    IF queue = <<>> THEN visited
    ELSE LET current == Head(queue)[1]
             depth == Head(queue)[2]
         IN  IF skip_entry(current, depth, visited, max_depth)
             THEN bfs(graph, direction, Tail(queue), visited, max_depth)
             ELSE LET seen == visited \cup {current}
                      nexts == SelectSeq(adjacent(graph, direction, current),
                                         LAMBDA n : n \notin seen)
                  IN  bfs(graph, direction,
                          Tail(queue) \o [i \in 1..Len(nexts) |-> <<nexts[i], depth + 1>>],
                          seen, max_depth)

\* graph.traverse_downstream(node_id, max_depth)
traverse_downstream(graph, node_id, max_depth) ==
    bfs(graph, "downstream", <<<<node_id, 0>>>>, {}, max_depth) \ {node_id}
\* graph.traverse_upstream(node_id, max_depth)
traverse_upstream(graph, node_id, max_depth) ==
    bfs(graph, "upstream", <<<<node_id, 0>>>>, {}, max_depth) \ {node_id}

\* the registered nodes of a set of ids: [get_node(nid) for nid in ids if get_node(nid)]
registered_of(graph, ids) == {nid \in ids : nid \in graph.nodes}

\* query.get_downstream(graph, node_id, max_depth)
get_downstream(graph, node_id, max_depth) ==
    LET downstream_ids == traverse_downstream(graph, node_id, max_depth)
        nodes == registered_of(graph, downstream_ids)
        edges == SelectSeq(graph.edges, LAMBDA e :
                     /\ (e.sourceId \in downstream_ids \/ e.sourceId = node_id)
                     /\ (e.targetId \in downstream_ids \/ e.targetId = node_id))
    IN  [queryType |-> "downstream", startNode |-> node_id, nodes |-> nodes,
         edges |-> edges,
         stats |-> [depth |-> max_depth, nodeCount |-> Cardinality(nodes),
                    edgeCount |-> Len(edges)]]
\* query.get_upstream(graph, node_id, max_depth)
get_upstream(graph, node_id, max_depth) ==
    LET upstream_ids == traverse_upstream(graph, node_id, max_depth)
        nodes == registered_of(graph, upstream_ids)
        edges == SelectSeq(graph.edges, LAMBDA e :
                     /\ (e.targetId \in upstream_ids \/ e.targetId = node_id)
                     /\ (e.sourceId \in upstream_ids \/ e.sourceId = node_id))
    IN  [queryType |-> "upstream", startNode |-> node_id, nodes |-> nodes,
         edges |-> edges,
         stats |-> [depth |-> max_depth, nodeCount |-> Cardinality(nodes),
                    edgeCount |-> Len(edges)]]

\* _find_longest_path's dfs: the longest path known after visiting current
RECURSIVE dfs(_, _, _, _, _)
RECURSIVE dfs_each(_, _, _, _, _)
dfs(graph, current, path, downstream, longest) ==
    dfs_each(graph, forward(graph, current), path, downstream,
             IF Len(path) > Len(longest) THEN path ELSE longest)
dfs_each(graph, nexts, path, downstream, longest) ==
    IF nexts = <<>> THEN longest
    ELSE LET next_id == Head(nexts)
             onPath == \E i \in 1..Len(path) : path[i] = next_id
         IN  dfs_each(graph, Tail(nexts), path, downstream,
                      IF next_id \in downstream /\ ~onPath
                      THEN dfs(graph, next_id, Append(path, next_id), downstream, longest)
                      ELSE longest)
\* _find_longest_path(graph, start_id, downstream)
find_longest_path(graph, start_id, downstream) ==
    IF downstream = {} THEN <<start_id>>
    ELSE dfs(graph, start_id, <<start_id>>, downstream, <<start_id>>)

\* _generate_recommendations(node, impacted, change_type), one word per message
generate_recommendations(impacted, change_type) ==
    IF impacted = {} THEN <<"Safe to modify">>
    ELSE (IF \E n \in impacted : NodeTypeOf[n] = "metric"
          THEN <<"Verify formula compatibility">> ELSE <<>>)
         \o (IF \E n \in impacted : NodeTypeOf[n] = "report"
             THEN <<"Notify BI team">> ELSE <<>>)
         \o (IF change_type = "delete"
             THEN <<"Deleting will break dependencies", "Consider deprecation period">>
             ELSE <<>>)

\* the node get_impact_analysis is asked about is registered
impact_node_found(graph, node_id) == node_id \in graph.nodes

\* query.get_impact_analysis(graph, node_id, change_type)
get_impact_analysis(graph, node_id, change_type) ==
    IF ~impact_node_found(graph, node_id)
    THEN [nodeId |-> node_id, nodeName |-> "Unknown", impactedNodes |-> {},
          totalImpacted |-> 0, criticalPath |-> <<>>,
          recommendations |-> <<"Node not found in lineage graph">>]
    ELSE LET downstream == traverse_downstream(graph, node_id, DefaultDepth)
             impacted == registered_of(graph, downstream)
         IN  [nodeId |-> node_id, nodeName |-> node_id, impactedNodes |-> impacted,
              totalImpacted |-> Cardinality(impacted),
              criticalPath |-> find_longest_path(graph, node_id, downstream),
              recommendations |-> generate_recommendations(impacted, change_type)]

LineageInit ==
    /\ lPc = "new"
    /\ lGraph \in LineageGraphs
    /\ lStart \in IdSet
    /\ lDepth \in MaxDepths
    /\ lOut = NotRun
    /\ CoreIdle /\ MigrationIdle /\ JobIdle /\ ApplyIdle /\ OrderIdle

\* ids = graph.traverse_downstream(start, depth) or graph.traverse_upstream(...)
LineageTraverse ==
    /\ lPc = "new"
    /\ \E direction \in {"downstream", "upstream"} :
           lOut' = [call |-> <<"traverse", direction>>,
                    ids |-> IF direction = "downstream"
                            THEN traverse_downstream(lGraph, lStart, lDepth)
                            ELSE traverse_upstream(lGraph, lStart, lDepth)]
    /\ lPc' = "done"
    /\ UNCHANGED <<lGraph, lStart, lDepth, coreVars, migrationVars, jobVars, applyVars, orderVars>>

\* result = get_downstream(graph, start, depth) or get_upstream(...)
LineageQuery ==
    /\ lPc = "new"
    /\ \E direction \in {"downstream", "upstream"} :
           lOut' = [call |-> <<"get", direction>>,
                    result |-> IF direction = "downstream"
                               THEN get_downstream(lGraph, lStart, lDepth)
                               ELSE get_upstream(lGraph, lStart, lDepth)]
    /\ lPc' = "done"
    /\ UNCHANGED <<lGraph, lStart, lDepth, coreVars, migrationVars, jobVars, applyVars, orderVars>>

\* impact = get_impact_analysis(graph, start, change_type)
LineageImpact ==
    /\ lPc = "new"
    /\ \E change_type \in ChangeTypes :
           lOut' = [call |-> <<"impact", change_type>>,
                    impact |-> get_impact_analysis(lGraph, lStart, change_type)]
    /\ lPc' = "done"
    /\ UNCHANGED <<lGraph, lStart, lDepth, coreVars, migrationVars, jobVars, applyVars, orderVars>>

LineageNext ==
    \/ LineageTraverse
    \/ LineageQuery
    \/ LineageImpact

LineageSpec == LineageInit /\ [][LineageNext]_vars

\* ---------------------------------------------------------------------------
\* Job step ordering (compiler/jobs/compiler.py)
\* ---------------------------------------------------------------------------

\* the step codes of a job
StepCodes == {"extract", "load", "report"}
\* the names a dependsOn list is written with: step codes and a code no step has
DepNames == StepCodes \cup {"missing"}
\* the dependsOn lists of a job hold at most MaxDeps entries together
MaxDeps == 3

\* the lists of distinct step codes
CodeLists ==
    {codes \in SeqsUpTo(StepCodes, Cardinality(StepCodes)) :
        \A i, j \in 1..Len(codes) : i # j => codes[i] # codes[j]}
\* the dependsOn lists of n steps, holding at most budget entries together
RECURSIVE DependsOnLists(_, _)
DependsOnLists(n, budget) ==
    IF n = 0 THEN {<<>>}
    ELSE UNION {{<<d>> \o rest : rest \in DependsOnLists(n - 1, budget - Len(d))} :
                   d \in SeqsUpTo(DepNames, budget)}
\* job.steps: JobStep(code, dependsOn) per listed code
JobStepLists ==
    UNION {{[i \in 1..Len(codes) |-> [code |-> codes[i], dependsOn |-> deps[i]]] :
               deps \in DependsOnLists(Len(codes), MaxDeps)} :
           codes \in CodeLists}

\* step_map.get(code): the step with the code, None when there is none
step_map_get(steps, code) ==
    IF \E i \in 1..Len(steps) : steps[i].code = code
    THEN steps[CHOOSE i \in 1..Len(steps) :
                   steps[i].code = code
                   /\ \A j \in (i + 1)..Len(steps) : steps[j].code # code]
    ELSE None

\* visit(code) and its loop over step.dependsOn, on the pair (visited, result)
RECURSIVE visit(_, _, _)
RECURSIVE visit_each(_, _, _)
\* variant of visit: the step is appended before its dependencies are visited
visit_step_first(steps, code, st) ==
    IF code \in st.visited THEN st
    ELSE LET step == step_map_get(steps, code)
             entered == [st EXCEPT !.visited = @ \cup {code}]
         IN  IF step = None THEN entered
             ELSE visit_each(steps, step.dependsOn,
                             [entered EXCEPT !.result = Append(@, step)])
visit(steps, code, st) ==
    IF code \in st.visited THEN st
    ELSE LET step == step_map_get(steps, code)
             entered == [st EXCEPT !.visited = @ \cup {code}]
         IN  IF step = None THEN entered
             ELSE LET after == visit_each(steps, step.dependsOn, entered)
                  IN  [after EXCEPT !.result = Append(@, step)]
visit_each(steps, deps, st) ==
    IF deps = <<>> THEN st
    ELSE visit_each(steps, Tail(deps), visit(steps, Head(deps), st))

\* the loop `for step in steps: visit(step.code)`
RECURSIVE visit_steps(_, _, _)
visit_steps(steps, i, st) ==
    IF i > Len(steps) THEN st
    ELSE visit_steps(steps, i + 1, visit(steps, steps[i].code, st))

\* _topological_sort(steps)
topological_sort(steps) ==
    visit_steps(steps, 1, [visited |-> {}, result |-> <<>>]).result

JobInit ==
    /\ jPc = "new"
    /\ jSteps \in JobStepLists
    /\ jOut = NotRun
    /\ CoreIdle /\ MigrationIdle /\ LineageIdle /\ ApplyIdle /\ OrderIdle

\* sorted_steps = _topological_sort(job.steps)
JobSort ==
    /\ jPc = "new"
    /\ jOut' = topological_sort(jSteps)
    /\ jPc' = "done"
    /\ UNCHANGED <<jSteps, coreVars, migrationVars, lineageVars, applyVars, orderVars>>

JobNext == JobSort

JobSpec == JobInit /\ [][JobNext]_vars

\* ---------------------------------------------------------------------------
\* Change-request apply engine (api/ozmetadb_api/apply_engine.py, storage.py,
\* main.py).  FastAPI runs the synchronous endpoint apply_cr on a thread pool,
\* one thread per request in flight; snapshot.json is the state they share.
\* ---------------------------------------------------------------------------

\* the API handles at most MaxRequests apply requests at a time
MaxRequests == 2
Requests == 1..MaxRequests
\* the snapshotVersion of a snapshot stored before the first apply
StoredVersion == 5

\* the change requests: one action each.  The snapshot schema is not part of
\* the sources; a table whose fields are not a list stands for a snapshot
\* that fails validation.
ChangeRequests ==
    {[type |-> "CreateTable", code |-> "Orders", fields |-> "list"],
     [type |-> "CreateTable", code |-> "Customers", fields |-> "list"],
     [type |-> "CreateTable", code |-> "Broken", fields |-> "not a list"],
     [type |-> "Rename", code |-> "Orders", fields |-> "list"]}

\* snapshot.json: None when the file does not exist, TornFile when it holds
\* no complete JSON document, else the snapshot
TornFile == [torn |-> TRUE]
Snapshot(version, tables) == [snapshotVersion |-> version, tables |-> tables]
\* the snapshots found on disk before the first request
StoredSnapshots == {None, Snapshot(StoredVersion, <<>>)}

\* _ensure_envelope(snapshot, project)
ensure_envelope(base) == IF base = None THEN Snapshot(1, <<>>) ELSE base

\* find_table(schema, code) finds a table
find_table(tables, code) == \E i \in 1..Len(tables) : tables[i].code = code

\* the loop over cr's actions, on the tables of the snapshot
apply_actions(tables, cr) ==
    IF cr.type = "CreateTable" /\ ~find_table(tables, cr.code)
    THEN Append(tables, [schema |-> "dp", code |-> cr.code, fields |-> cr.fields])
    ELSE tables

\* variant of new_version: the version is kept
same_version(snap) == snap.snapshotVersion

\* new_version = current_version + 1
new_version(snap) == snap.snapshotVersion + 1

\* the snapshot apply_change_request builds from what get_snapshot returned
changed_snapshot(base, cr) ==
    LET snap == ensure_envelope(base)
    IN  Snapshot(new_version(snap), apply_actions(snap.tables, cr))

\* validate_snapshot(snap)[0]
validate_snapshot(snap) ==
    \A i \in 1..Len(snap.tables) : snap.tables[i].fields = "list"

\* the size of the JSON text of a snapshot grows with its tables
text_size(file) == IF file \in {None, TornFile} THEN 0 ELSE Len(file.tables) + 1

\* what snapshot.json holds after a writer that opened it earlier writes its
\* text at offset 0: its own text, followed by the tail of a longer text
\* another writer put there since
written_file(file, snap) ==
    IF text_size(file) > text_size(snap) THEN TornFile ELSE snap

\* a request not yet handled; alone records whether no other request was
\* between its read and its write when this one read the snapshot
NewRequest(cr) ==
    [pc |-> "start", cr |-> cr, snap |-> None, err |-> "none", out |-> 0, alone |-> TRUE]
\* some other request has read the snapshot and not yet written it back
OthersInFlight(r) ==
    \E o \in Requests \ {r} : aRequests[o].pc \in {"validated", "opened"}

ApplyInit ==
    /\ aProject \in BOOLEAN
    /\ aStore \in StoredSnapshots
    /\ aStore0 = aStore
    /\ aRequests \in [Requests -> {NewRequest(cr) : cr \in ChangeRequests}]
    /\ CoreIdle /\ MigrationIdle /\ LineageIdle /\ JobIdle /\ OrderIdle

\* apply_change_request up to validate_snapshot: the project and the
\* snapshot are read, the actions applied to a copy, the copy validated
ApplyLoad(r) ==
    /\ aRequests[r].pc = "start"
    /\ aRequests' = [aRequests EXCEPT ![r] =
           IF ~aProject THEN [@ EXCEPT !.pc = "raised", !.err = "ValueError"]
           ELSE IF aStore = TornFile
           THEN [@ EXCEPT !.pc = "raised", !.err = "JSONDecodeError"]
           ELSE LET snap == changed_snapshot(aStore, @.cr)
                IN  IF validate_snapshot(snap)
                    THEN [@ EXCEPT !.pc = "validated", !.snap = snap,
                                   !.alone = ~OthersInFlight(r)]
                    ELSE [@ EXCEPT !.pc = "raised", !.err = "ValueError"]]
    /\ UNCHANGED <<aProject, aStore, aStore0, coreVars, migrationVars, lineageVars, jobVars, orderVars>>

\* storage.save_snapshot, first half: write_text opens the file, emptying it
ApplyOpen(r) ==
    /\ aRequests[r].pc = "validated"
    /\ aStore' = TornFile
    /\ aRequests' = [aRequests EXCEPT ![r].pc = "opened"]
    /\ UNCHANGED <<aProject, aStore0, coreVars, migrationVars, lineageVars, jobVars, orderVars>>

\* storage.save_snapshot, second half: the text is written and the file closed
ApplyWrite(r) ==
    /\ aRequests[r].pc = "opened"
    /\ aStore' = written_file(aStore, aRequests[r].snap)
    /\ aRequests' = [aRequests EXCEPT ![r].pc = "saved"]
    /\ UNCHANGED <<aProject, aStore0, coreVars, migrationVars, lineageVars, jobVars, orderVars>>

\* apply_cr after apply_change_request returned: the change request is
\* marked Applied and the new snapshotVersion is answered
ApplyRespond(r) ==
    /\ aRequests[r].pc = "saved"
    /\ aRequests' = [aRequests EXCEPT ![r].pc = "applied",
                                      ![r].out = aRequests[r].snap.snapshotVersion]
    /\ UNCHANGED <<aProject, aStore, aStore0, coreVars, migrationVars, lineageVars, jobVars, orderVars>>

ApplyNext ==
    \E r \in Requests :
        \/ ApplyLoad(r)
        \/ ApplyOpen(r)
        \/ ApplyWrite(r)
        \/ ApplyRespond(r)

ApplySpec == ApplyInit /\ [][ApplyNext]_vars

\* ---------------------------------------------------------------------------
\* A caller compiling several metrics in turn with compile_metric, adding
\* each compiled expression to the lookup it hands to the next call
\* ---------------------------------------------------------------------------

\* the metrics of the set, by code
OrderCodes == <<"A", "B", "C">>
AIsPositive == Map([op |-> Word(">"), args |-> List(<<MetricDoc("A"), Num(0)>>)])
\* formulas of A: no metric reference
OrderFormulasA == { SumSales, SalesAmount }
\* formulas of B: A in each kind of position
OrderFormulasB ==
    { MetricDoc("A"),
      Str(<<"A">>),
      Map([op |-> Word("+"), args |-> List(<<MetricDoc("A"), Num(1)>>)]),
      Map([agg |-> Word("SUM"), arg |-> SalesAmount, filter |-> AIsPositive]),
      Map([agg |-> Word("COUNT"), arg |-> MetricDoc("A")]),
      Map([agg |-> Word("DISTINCTCOUNT"), arg |-> SalesAmount, filter |-> AIsPositive]),
      Map([timeIntel |-> Word("YTD"), metric |-> MetricDoc("A"), dateColumn |-> OrderDate]),
      Map([window |-> Word("SUM"), metric |-> MetricDoc("A")]),
      Map([divide |-> List(<<SalesAmount, MetricDoc("A")>>)]),
      Map([if |-> AIsPositive, then |-> Num(1)]),
      Map([coalesce |-> List(<<MetricDoc("A"), Num(0)>>)]) }
\* formulas of C: B, or B and A
OrderFormulasC ==
    { MetricDoc("B"),
      Map([op |-> Word("-"), args |-> List(<<MetricDoc("B"), MetricDoc("A")>>)]),
      Map([divide |-> List(<<MetricDoc("A"), MetricDoc("B"), Num(0)>>)]),
      SumSales }
OrderMetricSets ==
    { (<<"A">> :> Map([code |-> Word("A"), formula |-> fa]))
        @@ (<<"B">> :> Map([code |-> Word("B"), formula |-> fb]))
        @@ (<<"C">> :> Map([code |-> Word("C"), formula |-> fc])) :
          fa \in OrderFormulasA, fb \in OrderFormulasB, fc \in OrderFormulasC }
OrderTargets == { "tsql", "dax", "spark", "python" }
\* the orders a caller may compile the set in
CompileOrders ==
    { o \in [1..Len(OrderCodes) -> Range(OrderCodes)] :
        \A i, j \in 1..Len(OrderCodes) : i # j => o[i] # o[j] }

\* lookup[compiled.metricCode] = compiled.expression
lookup_with(lookup, compiled) ==
    (compiled.metricCode.v :> compiled.expression) @@ lookup

OrderInit ==
    /\ oPc = "compile"
    /\ oTarget \in OrderTargets
    /\ oDefs \in OrderMetricSets
    /\ oOrder \in CompileOrders
    /\ oLookup = NoCache
    /\ oOut = <<>>
    /\ CoreIdle /\ MigrationIdle /\ LineageIdle /\ JobIdle /\ ApplyIdle

\* compiled = compile_metric(metric_def, target, lookup) for the next metric
\* of the caller's order
OrderCompile ==
    /\ oPc = "compile"
    /\ Len(oOut) < Len(oOrder)
    /\ LET metric_def == oDefs[<<oOrder[Len(oOut) + 1]>>]
       IN  oOut' = Append(oOut, [compiled |-> compile_metric(metric_def, oTarget, oLookup),
                                 metric_def |-> metric_def,
                                 lookup |-> oLookup])
    /\ oPc' = "add"
    /\ UNCHANGED <<oTarget, oDefs, oOrder, oLookup, coreVars, migrationVars, lineageVars,
                   jobVars, applyVars>>

\* the caller adds the compiled expression to the lookup under its code
OrderAddToLookup ==
    /\ oPc = "add"
    /\ oLookup' = lookup_with(oLookup, oOut[Len(oOut)].compiled)
    /\ oPc' = "compile"
    /\ UNCHANGED <<oTarget, oDefs, oOrder, oOut, coreVars, migrationVars, lineageVars,
                   jobVars, applyVars>>

OrderNext ==
    \/ OrderCompile
    \/ OrderAddToLookup

OrderSpec == OrderInit /\ [][OrderNext]_vars

(***************************************************************************)
(* Metric, KPI and literal claims                                          *)
(***************************************************************************)
\* C2: parse_metric_formula never raises, whatever the document (op nodes with
\* missing operands or short args lists, agg / timeIntel / ref keys holding
\* unexpected values), so compile_metric always returns text.
C2_ParserNeverRaises ==
    /\ mPc = "parsed" => ~IsRaise(mExpr)
    /\ mPc = "done" => mOut.ok

\* the documented aliases, on a lower-case name
Alias(t) ==
    CASE t = "sqlserver" -> "tsql"
      [] t = "powerbi" -> "dax"
      [] t = "databricks" -> "spark"
      [] OTHER -> t

\* C6: in every entry point the output for a target name in any casing, or for
\* an alias, equals the output for the lower-case name it stands for, and no
\* target name makes an entry point fail that its lower-case form does not.
C6_TargetNamesInsensitive ==
    /\ gPc = "done" =>
            /\ gOut = compile_dsl(gDoc, LowerAtom(gTarget))
            /\ gOut = compile_dsl(gDoc, Alias(LowerAtom(gTarget)))
    /\ mPc = "done" =>
            LET lower == compile_metric(mDef, LowerAtom(mTarget), mLookup)
                alias == compile_metric(mDef, Alias(LowerAtom(mTarget)), mLookup)
            IN  /\ mOut.ok = lower.ok /\ mOut.expression = lower.expression
                /\ mOut.ok = alias.ok /\ mOut.expression = alias.expression
    /\ kPc = "done" =>
            /\ kOut = compile_kpi(kDef, kMetrics, LowerAtom(kTarget))
            /\ kOut = compile_kpi(kDef, kMetrics, Alias(LowerAtom(kTarget)))

\* the string-quote character of a compiler's dialect
StringQuoteOf(compiler, target) ==
    IF compiler = "metrics" /\ LowerAtom(target) \in {"dax", "powerbi", "python"}
    THEN DQ ELSE SQ

\* reading a quoted body back: a doubled q is one q, a single q is unpaired
RECURSIVE Undouble(_, _)
Undouble(body, q) ==
    IF body = <<>> THEN [paired |-> TRUE, value |-> <<>>]
    ELSE IF Head(body) # q
    THEN LET rest == Undouble(Tail(body), q)
         IN  [paired |-> rest.paired, value |-> <<Head(body)>> \o rest.value]
    ELSE IF Len(body) >= 2 /\ body[2] = q
    THEN LET rest == Undouble(SubSeq(body, 3, Len(body)), q)
         IN  [paired |-> rest.paired, value |-> <<q>> \o rest.value]
    ELSE [paired |-> FALSE, value |-> <<>>]

\* C7: for both compilers, every dialect and every string value, the compiled
\* literal starts and ends with the dialect's string-quote character, no unpaired
\* quote character occurs between them, and un-doubling the body gives back the
\* value.
C7_RoundTripQuoting ==
    qPc = "done" =>
        LET q == StringQuoteOf(qCompiler, qTarget)
            text == qOut.text
        IN  /\ qOut.ok
            /\ Len(text) >= 2
            /\ text[1] = q /\ text[Len(text)] = q
            /\ Undouble(SubSeq(text, 2, Len(text) - 1), q) =
                    [paired |-> TRUE, value |-> qValue]

C7_Witness ==
    /\ qPc = "done"
    /\ qCompiler = "metrics" /\ qTarget = "dax"
    /\ qValue = <<"a", DQ>>
    /\ qOut = Ok(<<DQ, "a", DQ, DQ, DQ>>)

\* the compiler instance compile_metric builds for a target and a lookup
CompilerOf(target, lookup) ==
    [MetricsCompiler(target) EXCEPT !.metrics_cache = lookup]

\* C8: a DivideExpr(n, d, alt) compiles to DIVIDE(n, d, alt) on dax / powerbi, to
\* (n / d if d != 0 else alt) on python, to CASE WHEN d = 0 THEN alt ELSE n / d END
\* on tsql / sqlserver and to (n / NULLIF(d, 0)) on every other target, alt being
\* 0 when absent: the pattern is chosen by the target alone and none is a bare
\* n / d.
C8_DivideIsGuarded ==
    (mPc = "done" /\ mOut.ok) =>
        LET e == parse_metric_formula(FormulaOf(mDef))
            self == CompilerOf(mTarget, mLookup)
            t == LowerAtom(mTarget)
        IN  e.t = "DivideExpr" =>
              LET n == metric_compile(self, e.numerator)
                  d == metric_compile(self, e.denominator)
                  alt == IF e.alternateResult.t = "None" THEN <<"0">>
                         ELSE metric_compile(self, e.alternateResult)
              IN  /\ mOut.expression =
                        CASE t \in {"dax", "powerbi"} ->
                                <<"DIVIDE", "(">> \o n \o <<",", " ">> \o d \o <<",", " ">>
                                    \o alt \o <<")">>
                          [] t = "python" ->
                                <<"(">> \o n \o <<" ", "/", " ">> \o d
                                    \o <<" ", "if", " ">> \o d
                                    \o <<" ", "!=", " ", "0", " ", "else", " ">> \o alt
                                    \o <<")">>
                          [] t \in {"tsql", "sqlserver"} ->
                                <<"CASE", " ", "WHEN", " ">> \o d
                                    \o <<" ", "=", " ", "0", " ", "THEN", " ">> \o alt
                                    \o <<" ", "ELSE", " ">> \o n \o <<" ", "/", " ">> \o d
                                    \o <<" ", "END">>
                          [] OTHER ->
                                <<"(">> \o n \o <<" ", "/", " ", "NULLIF", "(">> \o d
                                    \o <<",", " ", "0", ")", ")">>
                  /\ mOut.expression # n \o <<" ", "/", " ">> \o d
                  /\ mOut.expression # <<"(">> \o n \o <<" ", "/", " ">> \o d \o <<")">>

C8_Witness ==
    /\ mPc = "done"
    /\ mTarget = "postgres"
    /\ FormulaOf(mDef) = Map([divide |-> List(<<SalesAmount, Num(1)>>)])
    /\ mOut.expression =
            <<"(", DQ, "Sales", DQ, DOT, DQ, "Amount", DQ, " ", "/", " ", "NULLIF", "(",
              "1", ",", " ", "0", ")", ")">>

\* the sub-expressions of a node: aggregation argument and filter, the inner
\* metric of time intelligence and of a window, arithmetic and comparison
\* operands, the branches of a conditional, coalesce arguments, divide
\* numerator, denominator and alternate
SubExprs(e) ==
    CASE e.t = "AggExpr" ->
            {e.arg} \cup (IF e.filter.t = "None" THEN {} ELSE {e.filter})
      [] e.t \in {"TimeIntelExpr", "WindowExpr"} -> {e.metric}
      [] e.t \in {"ArithExpr", "CompareExpr"} -> {e.left, e.right}
      [] e.t = "CondExpr" ->
            {e.condition, e.thenExpr}
                \cup (IF e.elseExpr.t = "None" THEN {} ELSE {e.elseExpr})
      [] e.t = "CoalesceExpr" -> Range(e.args)
      [] e.t = "DivideExpr" ->
            {e.numerator, e.denominator}
                \cup (IF e.alternateResult.t = "None" THEN {} ELSE {e.alternateResult})
      [] OTHER -> {}

\* the MetricRef nodes occurring anywhere in a tree
RECURSIVE MetricRefNodes(_)
MetricRefNodes(e) ==
    (IF e.t = "MetricRef" THEN {e} ELSE {})
        \cup UNION { MetricRefNodes(c) : c \in SubExprs(e) }

\* the position of a code in str comparison order
CodeIndex(code) == CHOOSE i \in 1..Len(CodeOrder) : <<CodeOrder[i]>> = code

\* C9: the dependencies of a CompiledMetric are exactly the metricCode values of
\* the MetricRef nodes occurring anywhere in the parsed tree, each once, in
\* ascending order.
C9_DependenciesComplete ==
    (mPc = "done" /\ mOut.ok) =>
        LET e == parse_metric_formula(FormulaOf(mDef))
            deps == mOut.dependencies
        IN  /\ Range(deps) = { n.metricCode.v : n \in MetricRefNodes(e) }
            /\ \A i, j \in 1..Len(deps) :
                    i < j => CodeIndex(deps[i]) < CodeIndex(deps[j])

C9_Witness ==
    /\ mPc = "done"
    /\ FormulaOf(mDef) = DeepDoc
    /\ mOut.dependencies =
            <<<<"A">>, <<"B">>, <<"C">>, <<"D">>, <<"Margin">>, <<"TotalCost">>,
              <<"TotalSales">>, <<"Z">>>>

\* C10: a metric reference whose code is a key of the lookup compiles to the
\* cached text in parentheses; any other code compiles to [code] on dax / powerbi
\* and to /* code */ on every other target; and a formula that parses compiles
\* without an error whether or not the lookup knows the codes it refers to.
C10_SoftReferences ==
    mPc = "done" =>
        LET e == parse_metric_formula(FormulaOf(mDef))
        IN  /\ ~IsRaise(e) => mOut.ok
            /\ (~IsRaise(e) /\ e.t = "MetricRef") =>
                    LET code == e.metricCode.v
                    IN  mOut.expression =
                            IF code \in DOMAIN mLookup
                            THEN <<"(">> \o mLookup[code] \o <<")">>
                            ELSE IF LowerAtom(mTarget) \in {"dax", "powerbi"}
                            THEN <<"[">> \o code \o <<"]">>
                            ELSE <<"/*", " ">> \o code \o <<" ", "*/">>

C10_Witness ==
    /\ mPc = "done"
    /\ FormulaOf(mDef) = MetricDoc("B")
    /\ mLookup # NoCache
    /\ mTarget = "DAX"
    /\ mOut.expression = <<"[", "B", "]">>

C10_WitnessCached ==
    /\ mPc = "done"
    /\ FormulaOf(mDef) = MetricDoc("A")
    /\ mLookup # NoCache
    /\ mTarget = "tsql"
    /\ mOut.expression =
            <<"(", "SUM", "(", "[", "Sales", "]", DOT, "[", "Amount", "]", ")", ")">>


C12_FilterAlwaysWraps ==
    (mPc = "done" /\ mOut.ok) =>
        LET e == parse_metric_formula(FormulaOf(mDef))
            self == CompilerOf(mTarget, mLookup)
        IN  (e.t = "AggExpr" /\ e.filter.t # "None" /\ self.target # "python") =>
              LET filter_text == metric_compile(self, e.filter)
              IN  IF IsDax(self)
                  THEN /\ StartsWith(mOut.expression, <<"CALCULATE", "(">>)
                       /\ Contains(mOut.expression, <<",", " ">> \o filter_text)
                  ELSE /\ StartsWith(mOut.expression,
                                     <<"SUM", "(", "CASE", " ", "WHEN", " ">>)
                       /\ Contains(mOut.expression, filter_text \o <<" ", "THEN", " ">>)

\* a filtered DISTINCTCOUNT compiled for tsql comes out without its filter
C12_FilterDropped ==
    /\ mPc = "done"
    /\ mTarget = "tsql"
    /\ FormulaOf(mDef) = Map([agg |-> Word("DISTINCTCOUNT"), arg |-> SalesAmount,
                             filter |-> RegionIsEast])
    /\ mOut.expression =
            <<"COUNT", "(", "DISTINCT", " ", "[", "Sales", "]", DOT, "[", "Amount", "]",
              ")">>

\* the functions each dialect's time intelligence method has a template for
DaxTemplates ==
    Range(TimeIntelFunc) \ {"DATESMTD", "DATESQTD"}
SqlTemplates == {"YTD", "MTD", "QTD", "PY", "PM"}
SparkTemplates == {"YTD", "MTD", "PY"}
HasTemplate(self, func) ==
    CASE IsDax(self) -> func \in DaxTemplates
      [] IsSparkSql(self) -> func \in SparkTemplates
      [] OTHER -> func \in SqlTemplates

\* C13: every TimeIntelFunc kind compiles to a text for every target, and when
\* the target has no template for the function the text is exactly the
\* compiled inner metric.
C13_FallbackIsInnerMetric ==
    mPc = "done" =>
        LET e == parse_metric_formula(FormulaOf(mDef))
            self == CompilerOf(mTarget, mLookup)
        IN  (~IsRaise(e) /\ e.t = "TimeIntelExpr") =>
                /\ mOut.ok
                /\ ~HasTemplate(self, e.func) =>
                        mOut.expression = metric_compile(self, e.metric)

\* DATESMTD compiled for dax: no template, yet the inner metric comes out
\* wrapped in CALCULATE with the date column
C13_DaxFallbackWraps ==
    /\ mPc = "done"
    /\ mTarget = "dax"
    /\ FormulaOf(mDef) = Map([timeIntel |-> Word("DATESMTD"), metric |-> SumSales,
                             dateColumn |-> OrderDate])
    /\ mOut.expression =
            <<"CALCULATE", "(", "SUM", "(", "Sales", "[", "Amount", "]", ")", ",", " ",
              "Sales", "[", "OrderDate", "]", ")">>

\* the node kind each discriminating key stands for
KindOfKey(key) ==
    CASE key = "lit" -> {"Literal"}
      [] key = "timeIntel" -> {"TimeIntelExpr"}
      [] key = "agg" -> {"AggExpr"}
      [] key = "metric" -> {"MetricRef"}
      [] key = "ref" -> {"FieldRef"}
      [] key = "op" -> {"ArithExpr", "CompareExpr"}
      [] key = "if" -> {"CondExpr"}
      [] key = "coalesce" -> {"CoalesceExpr"}
      [] key = "divide" -> {"DivideExpr"}
      [] key = "window" -> {"WindowExpr"}

\* a discriminating key counts as present: metric only with a string value,
\* table and field together count as ref
KeyPresent(node, key) ==
    CASE key = "metric" -> HasKey(node, "metric") /\ IsStr(node.v["metric"])
      [] key = "ref" -> HasKey(node, "ref")
                          \/ (HasKey(node, "table") /\ HasKey(node, "field"))
      [] OTHER -> HasKey(node, key)

PresentKeys(node) ==
    { i \in 1..Len(DiscriminatingKeys) : KeyPresent(node, DiscriminatingKeys[i]) }

\* C14: a map carrying several discriminating keys parses to the node kind of
\* the highest-priority key present, whatever the other keys are.
C14_HighestPriorityKeyDecides ==
    (mPc = "parsed" /\ FormulaOf(mDef).k = "map" /\ ~IsRaise(mExpr)) =>
        LET present == PresentKeys(FormulaOf(mDef))
        IN  Cardinality(present) >= 2 =>
              LET first == CHOOSE i \in present : \A j \in present : i <= j
              IN  mExpr.t \in KindOfKey(DiscriminatingKeys[first])

\* an op key with an operator the parser does not recognise, next to an if key:
\* the document parses to a CondExpr
C14_UnrecognisedOpFallsThrough ==
    /\ mPc = "parsed"
    /\ FormulaOf(mDef).k = "map"
    /\ PresentKeys(FormulaOf(mDef)) = {6, 7}
    /\ FormulaOf(mDef).v["op"] = Word("and")
    /\ mExpr.t = "CondExpr"

\* the op key decides only with an operator one of the two binary parsers takes
OpRecognised(node) ==
    /\ IsStr(node.v["op"])
    /\ Len(node.v["op"].v) = 1
    /\ node.v["op"].v[1] \in ArithOp \cup {"=", "<>", ">", "<", ">=", "<=", "==", "!="}

DecidingKeys(node) ==
    { i \in PresentKeys(node) : DiscriminatingKeys[i] = "op" => OpRecognised(node) }

\* C14 (amended): a map carrying several discriminating keys parses to the node
\* kind of the highest-priority key present, where an op key with an
\* unrecognised operator is passed over.
C14_HighestDecidingKeyDecides ==
    (mPc = "parsed" /\ FormulaOf(mDef).k = "map" /\ ~IsRaise(mExpr)) =>
        LET node == FormulaOf(mDef)
            deciding == DecidingKeys(node)
        IN  Cardinality(PresentKeys(node)) >= 2 =>
              LET first == CHOOSE i \in deciding : \A j \in deciding : i <= j
              IN  mExpr.t \in KindOfKey(DiscriminatingKeys[first])

\* a document carrying all ten keys has been parsed to a Literal
C14_Witness ==
    /\ mPc = "parsed"
    /\ FormulaOf(mDef).k = "map"
    /\ PresentKeys(FormulaOf(mDef)) = 1..Len(DiscriminatingKeys)
    /\ mExpr = MetricLiteral(Num(1), None)

\* the aggregation function names a shorthand text starts with, case ignored
ShorthandFuncs(s) ==
    { f \in Range(AggFunc) :
        StartsWith(Upper(s), <<f, "(">>) /\ s[Len(s)] = ")" }

\* table.field split at the first dot
DottedRef(s) ==
    LET i == CHOOSE j \in 1..Len(s) : s[j] = DOT /\ \A m \in 1..(j-1) : s[m] # DOT
    IN  FieldRef(Str(SubSeq(s, 1, i-1)), Str(SubSeq(s, i+1, Len(s))), None)

\* a token made of digits, dots and underscores only, with a digit in it
PurelyNumeric(s) ==
    /\ \A i \in 1..Len(s) : s[i] \in DigitAtoms \cup {DOT, "_"}
    /\ \E i \in 1..Len(s) : s[i] \in DigitAtoms

ExpectedQuotes(target) ==
    LET t == LowerAtom(target)
    IN  CASE t \in {"tsql", "sqlserver"} -> <<"[", "]">>
          [] t \in {"spark", "databricks", "bigquery"} -> <<BT, BT>>
          [] OTHER -> <<DQ, DQ>>

ScenarioGuard == Map([expr |-> OpDoc(Word("and"), <<StatusActive, TypeInAB>>)])

ScenarioText(q) ==
    <<"(", "(", q[1], "Status", q[2], " ", "=", " ", SQ, "Active", SQ, ")",
      " ", "AND", " ",
      "(", q[1], "Type", q[2], " ", "IN", " ", "(", SQ, "A", SQ, ",", " ", SQ, "B", SQ,
      ")", ")", ")">>

PlainPaths == { <<"Status">>, <<"_TenantID">>, <<"Sales", DOT, "Amount">> }

ParenthesizedOps ==
    {"and", "or", "not", "eq", "ne", "gt", "gte", "lt", "lte", "in", "isnull", "isnotnull"}

\* C16: the and/eq/in scenario compiles to [Status] = 'Active' AND
\* [Type] IN ('A', 'B') for tsql and to the same text with the identifier quotes
\* of the dialect for postgres and spark; every plain Ref path has each of its
\* dot-separated segments wrapped in those quotes; the result of every
\* comparison or boolean operator is enclosed in parentheses.
C16_GuardScenario ==
    (gPc = "done" /\ IsMap(gDoc) /\ HasKey(gDoc, "expr")) =>
        LET e == gDoc.v["expr"]
            q == ExpectedQuotes(gTarget)
        IN  /\ gDoc = ScenarioGuard =>
                /\ gOut = Ok(ScenarioText(q))
                /\ Contains(gOut.text, <<q[1], "Status", q[2], " ", "=", " ", SQ, "Active", SQ>>)
                /\ Contains(gOut.text, <<"AND">>)
                /\ Contains(gOut.text, <<q[1], "Type", q[2], " ", "IN", " ", "(", SQ, "A", SQ,
                                         ",", " ", SQ, "B", SQ, ")">>)
            /\ \A p \in PlainPaths :
                  e = RefDoc(p) =>
                     gOut = Ok(IF Len(p) = 1 THEN <<q[1], p[1], q[2]>>
                               ELSE <<q[1], p[1], q[2], DOT, q[1], p[3], q[2]>>)
            /\ (IsMap(e) /\ HasKey(e, "op") /\ IsStr(e.v["op"]) /\ Len(e.v["op"].v) = 1
                  /\ LowerAtom(e.v["op"].v[1]) \in ParenthesizedOps /\ gOut.ok) =>
                  /\ Len(gOut.text) >= 2
                  /\ Head(gOut.text) = "("
                  /\ gOut.text[Len(gOut.text)] = ")"

\* the scenario compiled for postgres
C16_Witness ==
    /\ gPc = "done"
    /\ gTarget = "postgres"
    /\ gDoc = ScenarioGuard
    /\ gOut = Ok(ScenarioText(<<DQ, DQ>>))

UnknownOpNames == {"myfunc", "MyFunc"}

\* the text of one argument leaf under the dialect's identifier quotes
LeafText(target, leaf) ==
    LET q == ExpectedQuotes(target)
    IN  CASE leaf = RefDoc(<<"Status">>) -> <<q[1], "Status", q[2]>>
          [] leaf = LitDoc(Str(<<"day">>)) -> <<SQ, "day", SQ>>
          [] leaf = LitDoc(Num(1)) -> <<"1">>

\* an operator document whose arguments are a list of the argument leaves
IsLeafCall(e) ==
    /\ IsMap(e) /\ DOMAIN e.v = {"op", "args"}
    /\ e.v["args"].k = "list"
    /\ \A i \in 1..Len(e.v["args"].v) : e.v["args"].v[i] \in ArgLeaves

\* NAME(arg1, arg2, ...) written out for up to MaxArgs arguments
CallText(name, a) ==
    <<name, "(">>
      \o (IF Len(a) >= 1 THEN a[1] ELSE <<>>)
      \o (IF Len(a) >= 2 THEN <<",", " ">> \o a[2] ELSE <<>>)
      \o (IF Len(a) >= 3 THEN <<",", " ">> \o a[3] ELSE <<>>)
      \o (IF Len(a) >= 4 THEN <<",", " ">> \o a[4] ELSE <<>>)
      \o <<")">>

\* C17: an Op whose name is no recognised operator never raises, whatever the
\* number of its arguments, and renders as the upper-cased name followed by the
\* compiled arguments in their order, NAME(arg1, arg2, ...).
C17_UnknownOperatorRenders ==
    (gPc = "done" /\ IsMap(gDoc) /\ HasKey(gDoc, "expr")) =>
        LET e == gDoc.v["expr"]
        IN  \A n \in UnknownOpNames :
              /\ e = Map([op |-> Word(n)]) => gOut = Ok(<<"MYFUNC", "(", ")">>)
              /\ (IsLeafCall(e) /\ e.v["op"] = Word(n) /\ Len(e.v["args"].v) <= 4) =>
                    LET a == e.v["args"].v
                    IN  gOut = Ok(CallText("MYFUNC",
                                    [i \in 1..Len(a) |-> LeafText(gTarget, a[i])]))

\* MyFunc with three different arguments compiled for tsql
C17_Witness ==
    /\ gPc = "done"
    /\ gTarget = "tsql"
    /\ gDoc = Map([expr |-> OpDoc(Word("MyFunc"),
                    <<LitDoc(Num(1)), RefDoc(<<"Status">>), LitDoc(Str(<<"day">>))>>)])
    /\ gOut = Ok(<<"MYFUNC", "(", "1", ",", " ", "[", "Status", "]", ",", " ",
                   SQ, "day", SQ, ")">>)

\* CASE, a WHEN/THEN clause per pair of texts, ELSE for an odd trailing text, END
\* (written out for up to five texts)
CaseText(a) ==
    LET n == Len(a)
        When(i) == IF i + 1 <= n
                   THEN <<" ", "WHEN", " ">> \o a[i] \o <<" ", "THEN", " ">> \o a[i + 1]
                   ELSE <<>>
    IN  <<"CASE">> \o When(1) \o When(3)
          \o (IF n % 2 = 1 THEN <<" ", "ELSE", " ">> \o a[n] ELSE <<>>)
          \o <<" ", "END">>

FiveArgCase ==
    OpDoc(Word("case"), <<StatusActive, LitDoc(Num(1)), TypeInAB, LitDoc(Num(2)),
                          LitDoc(Num(3))>>)

\* C18: case over n arguments renders CASE, then floor(n/2) WHEN cond THEN result
\* clauses in argument order, then ELSE last exactly when n is odd, then END;
\* each argument is used once.
C18_CaseClauses ==
    (gPc = "done" /\ IsMap(gDoc) /\ HasKey(gDoc, "expr")) =>
        LET e == gDoc.v["expr"]
            q == ExpectedQuotes(gTarget)
        IN  /\ (IsLeafCall(e) /\ e.v["op"] = Word("case") /\ Len(e.v["args"].v) <= 5) =>
                  LET a == e.v["args"].v
                  IN  gOut = Ok(CaseText([i \in 1..Len(a) |-> LeafText(gTarget, a[i])]))
            /\ e = FiveArgCase =>
                  gOut = Ok(CaseText(<<
                            <<"(", q[1], "Status", q[2], " ", "=", " ", SQ, "Active", SQ, ")">>,
                            <<"1">>,
                            <<"(", q[1], "Type", q[2], " ", "IN", " ", "(", SQ, "A", SQ,
                              ",", " ", SQ, "B", SQ, ")", ")">>,
                            <<"2">>, <<"3">> >>))

\* a case with one pair and a trailing else compiled for spark
C18_Witness ==
    /\ gPc = "done"
    /\ gTarget = "spark"
    /\ gDoc = Map([expr |-> OpDoc(Word("case"),
                    <<RefDoc(<<"Status">>), LitDoc(Num(1)), LitDoc(Str(<<"day">>))>>)])
    /\ gOut = Ok(<<"CASE", " ", "WHEN", " ", BT, "Status", BT, " ", "THEN", " ", "1",
                   " ", "ELSE", " ", SQ, "day", SQ, " ", "END">>)

\* ---- what a status expression yields for a metric value ----

StatusLabels == {"Green", "Yellow", "Red", "Unknown"}
ThresholdNumbers == {0, 1, 2, 3, 100000, 500000}
KpiValues == {-1, 0, 1, 2, 3, 4, 99999, 100000, 300000, 500000, 500001}

\* the positions of the comparisons metric <op> threshold, one per branch
BranchesOf(text) ==
    { i \in 2..(Len(text) - 2) :
        /\ text[i] \in {">=", "<=", "<", ">"}
        /\ text[i - 1] = " " /\ text[i + 1] = " " }

ThresholdAt(text, i) ==
    CHOOSE n \in ThresholdNumbers : ToString(n) = text[i + 2]

BranchHolds(text, i, value) ==
    LET n == ThresholdAt(text, i)
    IN  CASE text[i] = ">=" -> value >= n
          [] text[i] = "<=" -> value <= n
          [] text[i] = "<" -> value < n
          [] text[i] = ">" -> value > n

\* the label a branch returns: the first label after its comparison
LabelAfter(text, i) ==
    LET j == CHOOSE k \in (i + 1)..Len(text) :
                /\ text[k] \in StatusLabels
                /\ \A m \in (i + 1)..(k - 1) : text[m] \notin StatusLabels
    IN  text[j]

LastLabel(text) ==
    LET j == CHOOSE k \in 1..Len(text) :
                /\ text[k] \in StatusLabels
                /\ \A m \in (k + 1)..Len(text) : text[m] \notin StatusLabels
    IN  text[j]

\* CASE WHEN ... END, SWITCH(TRUE(), ...) and IF(...) all return the label of
\* the first branch whose comparison holds, and the last label when none does
Classify(text, value) ==
    LET holds == { i \in BranchesOf(text) : BranchHolds(text, i, value) }
    IN  IF holds = {} THEN LastLabel(text)
        ELSE LabelAfter(text, CHOOSE i \in holds : \A j \in holds : i <= j)

\* the thresholds a KPI definition supplies, as a map (JSON text is loaded)
SuppliedThresholds(kpi_def) ==
    LET t == IF HasKey(kpi_def, "thresholds") THEN kpi_def.v["thresholds"]
             ELSE Get(kpi_def, "KPI_ThresholdsJSON", EmptyMap)
    IN  IF IsStr(t) THEN (IF JsonValid(t.v) THEN JsonLoads(t.v) ELSE EmptyMap) ELSE t

\* the number supplied under a threshold name or its alias, None when absent
Supplied(kpi_def, name, alias) ==
    LET t == SuppliedThresholds(kpi_def)
    IN  IF HasKey(t, name) THEN t.v[name] ELSE Get(t, alias, None)

\* the classification the thresholds and the direction call for
ExpectedStatus(higher, red, yellow, green, value) ==
    LET g == IF green = None THEN yellow.v ELSE green.v
    IN  IF higher
        THEN (IF value >= g THEN "Green" ELSE IF value >= yellow.v THEN "Yellow"
              ELSE IF value < red.v THEN "Red" ELSE "Yellow")
        ELSE (IF value <= g THEN "Green" ELSE IF value <= yellow.v THEN "Yellow"
              ELSE IF value > red.v THEN "Red" ELSE "Yellow")

DirectionOf(kpi_def) == Get(kpi_def, "direction", None)

\* C19: with red and yellow supplied, HigherIsBetter classifies a value Green
\* when >= green (>= yellow without a green), else Yellow when >= yellow, else
\* Red when < red, else Yellow; LowerIsBetter is the mirror image; the SQL CASE
\* and the dax SWITCH classify every value alike; {red: 100000, yellow: 500000}
\* on tsql gives Green from 500000 up.
C19_StatusClassification ==
    (kPc = "done" /\ kOut.ok
       /\ DirectionOf(kDef) \in {Word("HigherIsBetter"), Word("LowerIsBetter")}
       /\ Supplied(kDef, "red", "critical") # None
       /\ Supplied(kDef, "yellow", "warning") # None) =>
        LET higher == DirectionOf(kDef) = Word("HigherIsBetter")
            red == Supplied(kDef, "red", "critical")
            yellow == Supplied(kDef, "yellow", "warning")
            green == Supplied(kDef, "green", "good")
            other == IF kTarget \in {"dax", "powerbi"} THEN "tsql" ELSE "dax"
        IN  \A value \in KpiValues :
              /\ Classify(kOut.statusExpression, value)
                    = ExpectedStatus(higher, red, yellow, green, value)
              /\ Classify(kOut.statusExpression, value)
                    = Classify(compile_kpi(kDef, kMetrics, other).statusExpression, value)
              /\ (kTarget = "tsql" /\ higher /\ red = Num(100000)
                    /\ yellow = Num(500000) /\ green = None /\ value >= 500000) =>
                    Classify(kOut.statusExpression, value) = "Green"

\* C20: with only some of red, yellow and green supplied the status expression
\* falls back to Yellow, and whatever thresholds are present or absent it yields
\* nothing but Red, Yellow or Green.
C20_PartialThresholdsYellow ==
    (kPc = "done" /\ kOut.ok) =>
        LET red == Supplied(kDef, "red", "critical")
            yellow == Supplied(kDef, "yellow", "warning")
            green == Supplied(kDef, "green", "good")
        IN  /\ \A value \in KpiValues :
                  Classify(kOut.statusExpression, value) \in {"Red", "Yellow", "Green"}
            /\ (red = None \/ yellow = None \/ green = None) =>
                  LastLabel(kOut.statusExpression) = "Yellow"

\* a KPI with no thresholds at all compiled for dax: the status is the constant
\* "Unknown"
C20_UnknownStatus ==
    /\ kPc = "done"
    /\ kTarget = "dax"
    /\ ~HasKey(kDef, "thresholds") /\ ~HasKey(kDef, "KPI_ThresholdsJSON")
    /\ kOut.statusExpression = <<DQ, "Unknown", DQ>>

\* the target value a KPI definition supplies, None when it has none
SuppliedTarget(kpi_def) ==
    IF HasKey(kpi_def, "targetValue") THEN kpi_def.v["targetValue"]
    ELSE Get(kpi_def, "KPI_TargetValue", None)

\* C21: compile_kpi emits varianceExpression (metric - target) and
\* variancePctExpression ((metric - target) / NULLIF(target, 0) * 100) exactly
\* when the definition has a target value, 0 included; a threshold of 0 counts
\* as present as well.
C21_VarianceIffTarget ==
    (kPc = "done" /\ kOut.ok) =>
        LET tv == SuppliedTarget(kDef)
            m == IF kOut.metricCode.v \in DOMAIN kMetrics
                 THEN <<"(">> \o kMetrics[kOut.metricCode.v].expression \o <<")">>
                 ELSE <<"[">> \o kOut.metricCode.v \o <<"]">>
            t == IF tv = None THEN <<>> ELSE <<ToString(tv.v)>>
        IN  /\ ("varianceExpression" \in kOut.keys) <=> (tv # None)
            /\ ("variancePctExpression" \in kOut.keys) <=> (tv # None)
            /\ tv # None =>
                  /\ kOut.varianceExpression = <<"(">> \o m \o <<" ", "-", " ">> \o t \o <<")">>
                  /\ kOut.variancePctExpression =
                        <<"(", "(">> \o m \o <<" ", "-", " ">> \o t
                            \o <<")", " ", "/", " ", "NULLIF", "(">> \o t
                            \o <<",", " ", "0", ")", " ", "*", " ", "100", ")">>
            /\ (Supplied(kDef, "red", "critical") = Num(0)
                  /\ Supplied(kDef, "yellow", "warning") # None) =>
                  LastLabel(kOut.statusExpression) # "Unknown"

\* a KPI with targetValue 0 compiled: the result holds no variance entries
C21_ZeroTargetDropped ==
    /\ kPc = "done" /\ kOut.ok
    /\ SuppliedTarget(kDef) = Num(0)
    /\ "varianceExpression" \notin kOut.keys

\* ---------------------------------------------------------------------------
\* C22: create_run gives a run with status Planned and one Pending checkpoint
\* per DEFAULT_CHECKPOINTS entry, in template order (progress: completed 0,
\* total 7).  advance_checkpoint on a run with no InProgress checkpoint starts
\* the first Pending checkpoint (checkpoint InProgress, run InProgress,
\* currentCheckpoint its code) and completes nothing; on a run with an
\* InProgress checkpoint it marks exactly that checkpoint Completed (completed
\* count + 1) and puts the next checkpoint of the list InProgress.
StatusesOf(run) == [i \in 1..Len(run.checkpoints) |-> run.checkpoints[i].status]
CompletedIn(run) == {i \in 1..Len(run.checkpoints) : run.checkpoints[i].status = "Completed"}
InProgressIn(run) == {i \in 1..Len(run.checkpoints) : run.checkpoints[i].status = "InProgress"}
PendingIn(run) == {i \in 1..Len(run.checkpoints) : run.checkpoints[i].status = "Pending"}
Lowest(S) == CHOOSE i \in S : \A j \in S : i <= j
C22_CreateThenAdvance ==
    /\ (rPc = "run" /\ rOut.op = "create_run") =>
           /\ rRun.status = "Planned"
           /\ Len(rRun.checkpoints) = Len(DEFAULT_CHECKPOINTS)
           /\ \A i \in 1..Len(DEFAULT_CHECKPOINTS) :
                  /\ rRun.checkpoints[i].code = DEFAULT_CHECKPOINTS[i]
                  /\ rRun.checkpoints[i].status = "Pending"
           /\ get_progress(rRun).completed = 0
           /\ get_progress(rRun).total = 7
    /\ (rPc = "run" /\ rOut.op = "advance_checkpoint"
            /\ InProgressIn(rPrev) = {} /\ PendingIn(rPrev) # {}) =>
           LET first == Lowest(PendingIn(rPrev))
           IN  /\ StatusesOf(rRun) = [StatusesOf(rPrev) EXCEPT ![first] = "InProgress"]
               /\ rRun.status = "InProgress"
               /\ get_progress(rRun).currentCheckpoint = rPrev.checkpoints[first].code
               /\ get_progress(rRun).completed = get_progress(rPrev).completed
    /\ (rPc = "run" /\ rOut.op = "advance_checkpoint" /\ InProgressIn(rPrev) # {}) =>
           LET current == Lowest(InProgressIn(rPrev))
           IN  /\ CompletedIn(rRun) = CompletedIn(rPrev) \cup {current}
               /\ get_progress(rRun).completed = get_progress(rPrev).completed + 1
               /\ current < Len(rPrev.checkpoints) =>
                      /\ rRun.checkpoints[current + 1].status = "InProgress"
                      /\ get_progress(rRun).currentCheckpoint =
                             rPrev.checkpoints[current + 1].code
C22_Witness ==
    /\ rPc = "run" /\ rOut.op = "advance_checkpoint"
    /\ InProgressIn(rPrev) = {2}
    /\ CompletedIn(rRun) = {1, 2}
    /\ InProgressIn(rRun) = {3}

\* ---------------------------------------------------------------------------
\* C24: rollback called after the run's rollbackAvailableUntil raises
\* ValueError and leaves the run unchanged; called before it, every Pending
\* or InProgress checkpoint becomes Skipped, the Completed and Failed ones
\* stay as they were, and the run's status becomes RolledBack.
PastDeadline(run, t) == t > run.rollbackAvailableUntil.v * SecondTicks
C24_RollbackWithinWindow ==
    (rPc = "run" /\ rOut.op = "rollback") =>
        IF PastDeadline(rPrev, rOut.at)
        THEN rOut.err = "ValueError" /\ rRun = rPrev
        ELSE /\ rOut.err = "none"
             /\ rRun.status = "RolledBack"
             /\ Len(rRun.checkpoints) = Len(rPrev.checkpoints)
             /\ \A i \in 1..Len(rPrev.checkpoints) :
                    /\ rPrev.checkpoints[i].status \in {"Pending", "InProgress"} =>
                           rRun.checkpoints[i].status = "Skipped"
                    /\ rPrev.checkpoints[i].status \in {"Completed", "Failed"} =>
                           rRun.checkpoints[i] = rPrev.checkpoints[i]
C24_Witness ==
    /\ rPc = "run" /\ rOut.op = "rollback" /\ rOut.err = "none"
    /\ \E i, j, k \in 1..Len(rPrev.checkpoints) :
           /\ rPrev.checkpoints[i].status = "Failed" /\ rRun.checkpoints[i].status = "Failed"
           /\ rPrev.checkpoints[j].status = "InProgress"
           /\ rRun.checkpoints[j].status = "Skipped"
           /\ rPrev.checkpoints[k].status = "Completed"
    /\ rRun.status = "RolledBack"
C24_ExpiredWitness ==
    /\ rPc = "run" /\ rOut.op = "rollback" /\ rOut.err = "ValueError"
    /\ InProgressIn(rRun) # {}

\* ---------------------------------------------------------------------------
\* C26: in every state reachable from create_run by advance_checkpoint,
\* fail_checkpoint and rollback, at most one checkpoint is InProgress and the
\* Pending checkpoints form a suffix of the checkpoint list.
C26_OneInProgressPendingSuffix ==
    rPc = "run" =>
        /\ Cardinality(InProgressIn(rRun)) <= 1
        /\ \A i \in PendingIn(rRun) :
               \A j \in i..Len(rRun.checkpoints) : j \in PendingIn(rRun)
C26_Witness ==
    /\ rPc = "run"
    /\ \E i \in 1..Len(rRun.checkpoints), j \in 1..Len(rRun.checkpoints) :
           /\ i < j
           /\ rRun.checkpoints[i].status = "Failed"
           /\ InProgressIn(rRun) = {j}
           /\ PendingIn(rRun) = (j + 1)..Len(rRun.checkpoints)
           /\ PendingIn(rRun) # {}

\* ---------------------------------------------------------------------------
\* C27: a run whose status is Completed has every checkpoint Completed, and a
\* run whose status is Failed or RolledBack never returns to InProgress or
\* Completed.
C27_CompletedAndTerminalStatuses ==
    rPc = "run" =>
        /\ rRun.status = "Completed" =>
               \A i \in 1..Len(rRun.checkpoints) : rRun.checkpoints[i].status = "Completed"
        /\ (rPrev # None /\ rPrev.status \in {"Failed", "RolledBack"}) =>
               rRun.status \notin {"InProgress", "Completed"}
\* a Failed run that advance_checkpoint has put back InProgress
C27_FailedRunResumed ==
    /\ rPc = "run" /\ rOut.op = "advance_checkpoint"
    /\ rPrev.status = "Failed"
    /\ rRun.status = "InProgress"
\* a Completed run that holds a Failed checkpoint
C27_CompletedWithFailedCheckpoint ==
    /\ rPc = "run"
    /\ rRun.status = "Completed"
    /\ \E i \in 1..Len(rRun.checkpoints) : rRun.checkpoints[i].status = "Failed"
\* the part of C27 the runner keeps: a RolledBack run never returns to
\* InProgress or Completed
C27_RolledBackStays ==
    (rPc = "run" /\ rPrev # None /\ rPrev.status = "RolledBack") =>
        rRun.status \notin {"InProgress", "Completed"}

\* ---------------------------------------------------------------------------
\* C28: applying only advance_checkpoint to a run made by create_run with n
\* checkpoints, the run is Completed after exactly n + 1 calls, with all
\* checkpoints Completed (they are completed in template order); every
\* further call leaves the run and its checkpoints unchanged.
C28_AdvanceOnlyCompletes ==
    (rPc = "run" /\ rOnlyAdvance) =>
        LET n == Len(DEFAULT_CHECKPOINTS)
        IN  /\ rRun.status = "Completed" <=> rCalls >= n + 1
            /\ CompletedIn(rRun) = 1..(IF rCalls <= n THEN rCalls - 1 ELSE n)
            /\ rCalls >= n + 1 =>
                   \A i \in 1..n : /\ rRun.checkpoints[i].status = "Completed"
                                   /\ rRun.checkpoints[i].code = DEFAULT_CHECKPOINTS[i]
            /\ rCalls > n + 1 => rRun = rPrev
C28_Witness ==
    /\ rPc = "run" /\ rOnlyAdvance
    /\ rCalls = Len(DEFAULT_CHECKPOINTS) + 2
    /\ rRun.status = "Completed"
    /\ rRun = rPrev

\* ---------------------------------------------------------------------------
\* C23: for any graph (cycles and edges to unregistered ids included)
\* traverse_upstream / traverse_downstream return exactly the ids reachable
\* from the start node by at least one and at most max_depth backward /
\* forward edges, without the start node; get_upstream / get_downstream
\* return the registered nodes of that set (2 nodes each at the two ends of a
\* 3-node chain); get_impact_analysis reports totalImpacted equal to the
\* number of registered downstream nodes.
\* the ids one edge away from a set of ids
OneEdgeFrom(graph, direction, S) ==
    {IF direction = "downstream" THEN graph.edges[i].targetId ELSE graph.edges[i].sourceId :
        i \in {j \in 1..Len(graph.edges) :
                  IF direction = "downstream" THEN graph.edges[j].sourceId \in S
                  ELSE graph.edges[j].targetId \in S}}
\* the ids reached by 1..k edges from the frontier; a frontier that brings
\* nothing new ends the walk, since every later one stays within acc
RECURSIVE WithinEdges(_, _, _, _, _)
WithinEdges(graph, direction, frontier, acc, k) ==
    IF k <= 0 THEN acc
    ELSE LET nxt == OneEdgeFrom(graph, direction, frontier)
         IN  IF nxt \subseteq acc THEN acc
             ELSE WithinEdges(graph, direction, nxt, acc \cup nxt, k - 1)
Reachable(graph, direction, start, k) ==
    WithinEdges(graph, direction, {start}, {}, k) \ {start}
TraversalsAsStated ==
    /\ (lPc = "done" /\ lOut.call[1] = "traverse") =>
           lOut.ids = Reachable(lGraph, lOut.call[2], lStart, lDepth)
    /\ (lPc = "done" /\ lOut.call[1] = "get") =>
           /\ lOut.result.nodes =
                  Reachable(lGraph, lOut.call[2], lStart, lDepth) \cap lGraph.nodes
           /\ lOut.result.stats.nodeCount = Cardinality(lOut.result.nodes)
RegisteredDownstream == Reachable(lGraph, "downstream", lStart, DefaultDepth) \cap lGraph.nodes
\* C23 as stated: totalImpacted counts the registered downstream nodes of any
\* start node
C23_LineageTraversal ==
    /\ TraversalsAsStated
    /\ (lPc = "done" /\ lOut.call[1] = "impact") =>
           lOut.impact.totalImpacted = Cardinality(RegisteredDownstream)
\* C23, amended: totalImpacted counts the registered downstream nodes of a
\* registered start node, and is 0 for a start node that is not registered
C23_LineageTraversalRegisteredStart ==
    /\ TraversalsAsStated
    /\ (lPc = "done" /\ lOut.call[1] = "impact") =>
           lOut.impact.totalImpacted =
               IF lStart \in lGraph.nodes THEN Cardinality(RegisteredDownstream) ELSE 0
ChainGraph ==
    [nodes |-> IdSet,
     edges |-> <<[sourceId |-> "src:1", targetId |-> "tgt:1"],
                 [sourceId |-> "tgt:1", targetId |-> "metric:1"]>>]
\* the upstream end of the 3-node chain
C23_Witness ==
    /\ lPc = "done" /\ lOut.call = <<"get", "upstream">>
    /\ lGraph = ChainGraph /\ lStart = "metric:1" /\ lDepth = DefaultDepth
    /\ lOut.result.stats.nodeCount = 2
\* a start node on a cycle, with an edge to an id that is not registered
C23_CycleWitness ==
    /\ lPc = "done" /\ lOut.call = <<"traverse", "downstream">>
    /\ lStart \in WithinEdges(lGraph, "downstream", {lStart}, {}, DefaultDepth)
    /\ lOut.ids \ lGraph.nodes # {}
    /\ lDepth = 1 /\ Reachable(lGraph, "downstream", lStart, DefaultDepth) # lOut.ids
\* an unregistered start node with registered downstream nodes
C23_UnregisteredStart ==
    /\ lPc = "done" /\ lOut.call[1] = "impact"
    /\ lStart \notin lGraph.nodes
    /\ RegisteredDownstream # {}
    /\ lOut.impact.totalImpacted = 0

\* ---------------------------------------------------------------------------
\* C25: _topological_sort, applied to job steps with distinct codes, returns
\* every step exactly once; when the dependsOn graph is acyclic every step
\* appears after all the steps it depends on that exist in the job; it
\* terminates for every input, cyclic dependsOn graphs and dependencies that
\* name no step included.
CodesOf(steps) == {steps[i].code : i \in 1..Len(steps)}
\* the codes of the job a step's dependsOn names
ExistingDeps(steps, step) ==
    {step.dependsOn[k] : k \in 1..Len(step.dependsOn)} \cap CodesOf(steps)
\* the codes reached from a set of codes through one or more dependsOn entries
RECURSIVE DependsOnClosure(_, _, _)
DependsOnClosure(steps, frontier, acc) ==
    LET nxt == UNION {ExistingDeps(steps, steps[i]) :
                         i \in {j \in 1..Len(steps) : steps[j].code \in frontier}}
    IN  IF nxt \subseteq acc THEN acc
        ELSE DependsOnClosure(steps, nxt, acc \cup nxt)
Acyclic(steps) ==
    \A i \in 1..Len(steps) :
        steps[i].code \notin DependsOnClosure(steps, {steps[i].code}, {})
PositionOf(sorted, code) == CHOOSE p \in 1..Len(sorted) : sorted[p].code = code
C25_TopologicalSort ==
    jPc = "done" =>
        /\ Len(jOut) = Len(jSteps)
        /\ \A i \in 1..Len(jSteps) :
               Cardinality({p \in 1..Len(jOut) : jOut[p] = jSteps[i]}) = 1
        /\ Acyclic(jSteps) =>
               \A p \in 1..Len(jOut) :
                   \A dep \in ExistingDeps(jSteps, jOut[p]) :
                       PositionOf(jOut, dep) < p
\* an acyclic job whose steps are listed against their dependencies, one of
\* them also naming a step that does not exist
C25_Witness ==
    /\ jPc = "done"
    /\ Len(jSteps) = 3
    /\ Acyclic(jSteps)
    /\ jSteps[1].dependsOn = <<"missing", jSteps[2].code>>
    /\ jSteps[2].dependsOn = <<jSteps[3].code>>
    /\ jOut = <<jSteps[3], jSteps[2], jSteps[1]>>
\* a cyclic job, sorted all the same
C25_CycleWitness ==
    /\ jPc = "done"
    /\ Len(jSteps) = 3
    /\ \A i \in 1..3 : jSteps[i].code \in DependsOnClosure(jSteps, {jSteps[i].code}, {})
    /\ Len(jOut) = 3

\* ---------------------------------------------------------------------------
\* C29: each successful apply_change_request stores a snapshot whose
\* snapshotVersion is one greater than the previously stored version (2 when
\* none was stored), and a failed validation stores nothing; so after k
\* successful applies on one project, applies issued by concurrently handled
\* API requests included, the stored snapshotVersion is the initial version
\* plus k and the stored model contains the effects of all k change requests.
AllAnswered == \A r \in Requests : aRequests[r].pc \in {"applied", "raised"}
Successful == {r \in Requests : aRequests[r].pc = "applied"}
InitialVersion == IF aStore0 = None THEN 1 ELSE aStore0.snapshotVersion
\* the change request's effect is in the stored model
EffectStored(cr) ==
    cr.type = "CreateTable" =>
        \E i \in 1..Len(aStore.tables) : aStore.tables[i].code = cr.code
StoredAsStated ==
    IF Successful = {} THEN aStore = aStore0
    ELSE /\ aStore \notin {None, TornFile}
         /\ aStore.snapshotVersion = InitialVersion + Cardinality(Successful)
         /\ \A r \in Successful : EffectStored(aRequests[r].cr)
C29_VersionCountsApplies ==
    (aRequests # <<>> /\ AllAnswered) => StoredAsStated
\* two successful applies, one of them lost: the version is one short and the
\* first table is missing
C29_LostUpdate ==
    /\ aRequests # <<>> /\ AllAnswered
    /\ Cardinality(Successful) = 2
    /\ aStore \notin {None, TornFile}
    /\ aStore.snapshotVersion = InitialVersion + 1
    /\ \E r \in Successful : ~EffectStored(aRequests[r].cr)
\* two successful applies that left no readable snapshot
C29_TornSnapshot ==
    /\ aRequests # <<>> /\ AllAnswered
    /\ Cardinality(Successful) = 2
    /\ aStore = TornFile
\* the part of C29 the engine keeps: when no request reads the snapshot while
\* another is between its read and its write, the count and the effects are
\* as stated
C29_OneAtATime ==
    (aRequests # <<>> /\ AllAnswered /\ \A r \in Requests : aRequests[r].alone)
        => StoredAsStated
C29_OneAtATimeWitness ==
    /\ aRequests # <<>> /\ AllAnswered /\ \A r \in Requests : aRequests[r].alone
    /\ Cardinality(Successful) = 2
    /\ aStore0 = None
    /\ aStore.snapshotVersion = 3
    /\ Len(aStore.tables) = 2

\* ---------------------------------------------------------------------------
\* C30: for a set of metrics whose reference graph is acyclic, compiled with
\* compile_metric in an order in which every metric comes after all metrics
\* it depends on, each compiled expression being added to the lookup under
\* its code before the next call: no compiled expression contains an
\* unresolved placeholder (/* code */ or [code]), and every metric code whose
\* cached text or placeholder is rendered into an output is a member of that
\* metric's dependency list; compiling a metric before one of its
\* dependencies leaves that dependency's placeholder in the output.
PlaceholderOf(target, code) ==
    IF target = "dax" THEN <<"[">> \o code \o <<"]">>
    ELSE <<"/*", " ">> \o code \o <<" ", "*/">>
\* the codes of the set, as the str values the compiler handles
CodeStrs == {<<OrderCodes[i]>> : i \in 1..Len(OrderCodes)}
DependencyCodes(call) ==
    {call.compiled.dependencies[i] : i \in 1..Len(call.compiled.dependencies)}
\* the codes the calls before the i-th one were made for
CompiledBefore(i) == {<<oOrder[j]>> : j \in 1..(i - 1)}
\* a text no compiled expression holds, put in the lookup under a code to see
\* whether the call itself renders that code
MarkerText == <<"<marker>">>
\* the codes the call's own _compile_metric_ref calls rendered, from the cache
\* or as a placeholder
RenderedCodes(call) ==
    {c \in CodeStrs :
        Contains(compile_metric(call.metric_def, oTarget,
                                (c :> MarkerText) @@ call.lookup).expression,
                 <<"(">> \o MarkerText \o <<")">>)}
HasPlaceholder(text) == \E c \in CodeStrs : Contains(text, PlaceholderOf(oTarget, c))
\* every call so far came after the calls for its dependencies
DependenciesFirst ==
    \A i \in 1..Len(oOut) : DependencyCodes(oOut[i]) \subseteq CompiledBefore(i)
ResolvedInOrder ==
    (oPc \in {"compile", "add"} /\ DependenciesFirst) =>
        \A i \in 1..Len(oOut) :
            /\ ~HasPlaceholder(oOut[i].compiled.expression)
            /\ RenderedCodes(oOut[i]) \subseteq DependencyCodes(oOut[i])
\* a call made before the call for one of its dependencies shows the
\* dependency's placeholder
PlaceholderLeft ==
    oPc \in {"compile", "add"} =>
        \A i \in 1..Len(oOut) :
            \A d \in DependencyCodes(oOut[i]) \ CompiledBefore(i) :
                Contains(oOut[i].compiled.expression, PlaceholderOf(oTarget, d))
\* C30 as stated
C30_OrderedCompilation == ResolvedInOrder /\ PlaceholderLeft

\* B counts distinct amounts where A is positive and is compiled before A:
\* A is a dependency, and no placeholder of A is in the output
C30_DependencyWithoutPlaceholder ==
    /\ oPc = "add" /\ Len(oOut) = 1
    /\ oOut[1].compiled.metricCode = Word("B")
    /\ oOut[1].compiled.dependencies = <<<<"A">>>>
    /\ ~HasPlaceholder(oOut[1].compiled.expression)
\* the dependencies were compiled first and the last call rendered two cached
\* texts
C30_InOrderWitness ==
    /\ oPc = "add" /\ Len(oOut) = 3 /\ DependenciesFirst
    /\ RenderedCodes(oOut[3]) = {<<"A">>, <<"B">>}
    /\ RenderedCodes(oOut[2]) = {<<"A">>}

====
